---------------------------- MODULE Spec2Model ----------------------------
(***************************************************************************)
(* Model of the hierarchical identifier family of larcoreobj:             *)
(*   geo::CryostatID -> geo::OpDetID                                      *)
(*                   -> geo::TPCID -> geo::PlaneID -> geo::WireID         *)
(*                   -> readout::TPCsetID -> readout::ROPID               *)
(* (larcoreobj/SimpleTypesAndConstants/geo_types.h, readout_types.h).     *)
(*                                                                         *)
(* An identifier is a record holding its static type and the data members *)
(* of the C++ struct, base class members included.  Indices are `unsigned *)
(* int` (`unsigned short` for the TPC set); an unsigned value v is the     *)
(* pair <<v \div 2^16, v % 2^16>> of 16-bit limbs, so that the full 32-bit *)
(* range, std::numeric_limits<unsigned int>::max() included, is exact.     *)
(* A std::string / std::ostream content is a sequence of characters.       *)
(***************************************************************************)
EXTENDS Integers, Sequences, FiniteSets, TLC

VARIABLES a, b, last

vars == <<a, b, last>>

\* Largest ordinary index value the constructor and assignment inputs take
\* (the sentinel of the index type is always among the inputs as well).
MaxIndex == 1

(***************************************************************************)
(* Unsigned integer arithmetic on 16-bit limbs.                            *)
(***************************************************************************)
\* The value n (0 <= n < 2^31) as an unsigned int.
UInt(n) == <<n \div 65536, n % 65536>>

\* std::numeric_limits<unsigned int>::max()
UINT_MAX == <<65535, 65535>>

\* std::numeric_limits<unsigned short>::max()
USHRT_MAX == <<0, 65535>>

\* Built-in `x < y` of two unsigned values.
ULess(x, y) == x[1] < y[1] \/ (x[1] = y[1] /\ x[2] < y[2])
\* A TPCsetID_t as wide as the other indices (unsigned int).
ToTPCsetID_t_unsigned_int(s) == s

\* Conversion of an unsigned value to TPCsetID_t (unsigned short): modulo 2^16.
ToTPCsetID_t(s) == <<0, s[2]>>

\* Quotient and remainder of x by ten, as used by the decimal output.
UDiv10(x) == <<x[1] \div 10, (((x[1] % 10) * 65536) + x[2]) \div 10>>

UMod10(x) == (((x[1] % 10) * 65536) + x[2]) % 10

DigitChar(d) == <<"0", "1", "2", "3", "4", "5", "6", "7", "8", "9">>[d + 1]

\* std::ostream << unsigned: the decimal digits, most significant first.
RECURSIVE UIntToChars(_)
UIntToChars(x) ==
  IF x[1] = 0 /\ x[2] < 10
    THEN <<DigitChar(x[2])>>
    ELSE UIntToChars(UDiv10(x)) \o <<DigitChar(UMod10(x))>>

(***************************************************************************)
(* geo::ElementLevel and readout::ElementLevel.                            *)
(***************************************************************************)
ElementLevel_Cryostat == 0
ElementLevel_OpDet == 1
ElementLevel_TPC == 1
ElementLevel_Plane == 2
ElementLevel_Wire == 3
ElementLevel_TPCset == 1
ElementLevel_ReadoutPlane == 2

GeoTypes == {"CryostatID", "OpDetID", "TPCID", "PlaneID", "WireID"}

ReadoutTypes == {"TPCsetID", "ROPID"}

Types == GeoTypes \cup ReadoutTypes

\* ID::ParentID_t ("void" for the top of the hierarchy).
ParentID_t(T) ==
  CASE T = "CryostatID" -> "void"
    [] T = "OpDetID"    -> "CryostatID"
    [] T = "TPCID"      -> "CryostatID"
    [] T = "PlaneID"    -> "TPCID"
    [] T = "WireID"     -> "PlaneID"
    [] T = "TPCsetID"   -> "CryostatID"
    [] T = "ROPID"      -> "TPCsetID"

\* ID::Level
Level(T) ==
  CASE T = "CryostatID" -> ElementLevel_Cryostat
    [] T = "OpDetID"    -> ElementLevel_OpDet
    [] T = "TPCID"      -> ElementLevel_TPC
    [] T = "PlaneID"    -> ElementLevel_Plane
    [] T = "WireID"     -> ElementLevel_Wire
    [] T = "TPCsetID"   -> ElementLevel_TPCset
    [] T = "ROPID"      -> ElementLevel_ReadoutPlane
\* A geoElementLevel that counts the top of the hierarchy as level 1.
RECURSIVE geoElementLevel_from_one(_)
geoElementLevel_from_one(ID) ==
  IF ParentID_t(ID) = "void"
    THEN 1
    ELSE geoElementLevel_from_one(ParentID_t(ID)) + 1

\* details::isTopGeoElementID<ID>
isTopGeoElementID(ID) == ParentID_t(ID) = "void"

\* details::geoElementLevel<ID>()
RECURSIVE geoElementLevel(_)
geoElementLevel(ID) ==
  IF isTopGeoElementID(ID)
    THEN 0
    ELSE geoElementLevel(ParentID_t(ID)) + 1
\* A sentinel that is the maximum of unsigned int at every level.
InvalidID_unsigned_int_everywhere(T) == UINT_MAX

\* ID::InvalidID and ID::getInvalidID()
InvalidID(T) == IF T = "TPCsetID" THEN USHRT_MAX ELSE UINT_MAX

\* Whether an object of static type T is also an object of type B
\* (public inheritance: T is B or derives from it).
RECURSIVE IsA(_, _)
IsA(T, B) ==
  IF T = B THEN TRUE
  ELSE IF ParentID_t(T) = "void" THEN FALSE
  ELSE IsA(ParentID_t(T), B)

\* No object: the name is not bound to a constructed identifier.
NoID == [type |-> "none"]

(***************************************************************************)
(* geo::CryostatID                                                         *)
(***************************************************************************)
\* CryostatID(): bool isValid = false; CryostatID_t Cryostat = InvalidID
CryostatID_default ==
  [type |-> "CryostatID", isValid |-> FALSE, Cryostat |-> InvalidID("CryostatID")]
\* A constructor that does not accept the sentinel as a real index.
CryostatID_ctor_sentinel_invalid(c) ==
  [type |-> "CryostatID", isValid |-> (c # InvalidID("CryostatID")),
   Cryostat |-> c]

\* explicit CryostatID(CryostatID_t c): isValid(true), Cryostat(c)
CryostatID_ctor(c) ==
  [type |-> "CryostatID", isValid |-> TRUE, Cryostat |-> c]

\* CryostatID(CryostatID_t c, bool valid): isValid(valid), Cryostat(c)
CryostatID_ctor_valid(c, valid) ==
  [type |-> "CryostatID", isValid |-> valid, Cryostat |-> c]

\* explicit operator bool() const
CryostatID_bool(id) == id.isValid

\* bool operator! () const
CryostatID_not(id) == ~id.isValid
\* A setValidity() that ignores its argument.
CryostatID_setValidity_always_valid(id, valid) == [id EXCEPT !.isValid = TRUE]

\* void setValidity(bool valid) (inherited by every derived identifier)
CryostatID_setValidity(id, valid) == [id EXCEPT !.isValid = valid]

\* void markValid()
CryostatID_markValid(id) == CryostatID_setValidity(id, TRUE)
\* A markInvalid() that also resets the cryostat index to the sentinel.
CryostatID_markInvalid_resets_index(id) ==
  [id EXCEPT !.isValid = FALSE, !.Cryostat = InvalidID("CryostatID")]

\* void markInvalid()
CryostatID_markInvalid(id) == CryostatID_setValidity(id, FALSE)

\* The CryostatID base sub-object of an identifier (asCryostatID(), and the
\* implicit derived-to-base conversion).
asCryostatID(id) ==
  [type |-> "CryostatID", isValid |-> id.isValid, Cryostat |-> id.Cryostat]

\* deepestIndex() const
CryostatID_deepestIndex(id) == id.Cryostat

\* `id.deepestIndex() = v` through the non-const overload
CryostatID_deepestIndex_assign(id, v) == [id EXCEPT !.Cryostat = v]
\* A three-way comparison that returns the sign with magnitude 2.
ThreeWayComparison_magnitude_two(x, y) ==
  IF x = y THEN 0 ELSE IF ULess(x, y) THEN -2 ELSE 2

\* template <typename T> static int ThreeWayComparison(T a, T b)
ThreeWayComparison(x, y) == IF x = y THEN 0 ELSE IF ULess(x, y) THEN -1 ELSE 1

\* int cmp(CryostatID const& other) const
CryostatID_cmp(x, other) ==
  ThreeWayComparison(CryostatID_deepestIndex(x), CryostatID_deepestIndex(other))


(***************************************************************************)
(* geo::OpDetID: public CryostatID                                         *)
(***************************************************************************)
\* OpDetID(): CryostatID base default-constructed; OpDetID_t OpDet = InvalidID
OpDetID_default ==
  [type |-> "OpDetID", isValid |-> CryostatID_default.isValid,
   Cryostat |-> CryostatID_default.Cryostat, OpDet |-> InvalidID("OpDetID")]

\* OpDetID(CryostatID const& cryoid, OpDetID_t o): CryostatID(cryoid), OpDet(o)
OpDetID_nested(cryoid, o) ==
  [type |-> "OpDetID", isValid |-> cryoid.isValid,
   Cryostat |-> cryoid.Cryostat, OpDet |-> o]

\* OpDetID(CryostatID_t c, OpDetID_t o): CryostatID(c), OpDet(o)
OpDetID_ctor(c, o) ==
  [type |-> "OpDetID", isValid |-> CryostatID_ctor(c).isValid,
   Cryostat |-> CryostatID_ctor(c).Cryostat, OpDet |-> o]

OpDetID_deepestIndex(id) == id.OpDet

OpDetID_deepestIndex_assign(id, v) == [id EXCEPT !.OpDet = v]

\* ParentID_t const& parentID() const { return *this; }
OpDetID_parentID(id) == asCryostatID(id)

\* int cmp(OpDetID const& other) const
OpDetID_cmp(x, other) ==
  LET cmp_res == CryostatID_cmp(x, other)
  IN  IF cmp_res = 0
        THEN ThreeWayComparison(OpDetID_deepestIndex(x), OpDetID_deepestIndex(other))
        ELSE cmp_res

(***************************************************************************)
(* geo::TPCID: public CryostatID                                           *)
(***************************************************************************)
TPCID_default ==
  [type |-> "TPCID", isValid |-> CryostatID_default.isValid,
   Cryostat |-> CryostatID_default.Cryostat, TPC |-> InvalidID("TPCID")]
\* A TPCID(cryoid, t) that leaves its CryostatID base default-constructed.
TPCID_nested_base_not_copied(cryoid, t) ==
  [type |-> "TPCID", isValid |-> CryostatID_default.isValid,
   Cryostat |-> CryostatID_default.Cryostat, TPC |-> t]

\* TPCID(CryostatID const& cryoid, TPCID_t t): CryostatID(cryoid), TPC(t)
TPCID_nested(cryoid, t) ==
  [type |-> "TPCID", isValid |-> cryoid.isValid,
   Cryostat |-> cryoid.Cryostat, TPC |-> t]

\* TPCID(CryostatID_t c, TPCID_t t): CryostatID(c), TPC(t)
TPCID_ctor(c, t) ==
  [type |-> "TPCID", isValid |-> CryostatID_ctor(c).isValid,
   Cryostat |-> CryostatID_ctor(c).Cryostat, TPC |-> t]

\* The TPCID base sub-object (asTPCID(), derived-to-base conversion).
asTPCID(id) ==
  [type |-> "TPCID", isValid |-> id.isValid, Cryostat |-> id.Cryostat,
   TPC |-> id.TPC]

TPCID_deepestIndex(id) == id.TPC

TPCID_deepestIndex_assign(id, v) == [id EXCEPT !.TPC = v]

TPCID_parentID(id) == asCryostatID(id)

\* int cmp(TPCID const& other) const
TPCID_cmp(x, other) ==
  LET cmp_res == CryostatID_cmp(x, other)
  IN  IF cmp_res = 0
        THEN ThreeWayComparison(TPCID_deepestIndex(x), TPCID_deepestIndex(other))
        ELSE cmp_res

(***************************************************************************)
(* geo::PlaneID: public TPCID                                              *)
(***************************************************************************)
PlaneID_default ==
  [type |-> "PlaneID", isValid |-> TPCID_default.isValid,
   Cryostat |-> TPCID_default.Cryostat, TPC |-> TPCID_default.TPC,
   Plane |-> InvalidID("PlaneID")]
\* A PlaneID(tpcid, p) that is valid whatever the TPCID is.
PlaneID_nested_always_valid(tpcid, p) ==
  [type |-> "PlaneID", isValid |-> TRUE,
   Cryostat |-> tpcid.Cryostat, TPC |-> tpcid.TPC, Plane |-> p]

\* PlaneID(TPCID const& tpcid, PlaneID_t p): TPCID(tpcid), Plane(p)
PlaneID_nested(tpcid, p) ==
  [type |-> "PlaneID", isValid |-> tpcid.isValid,
   Cryostat |-> tpcid.Cryostat, TPC |-> tpcid.TPC, Plane |-> p]
\* A PlaneID(c, t, p) that hands the two upper indices over in the wrong order.
PlaneID_ctor_swapped(c, t, p) ==
  [type |-> "PlaneID", isValid |-> TPCID_ctor(t, c).isValid,
   Cryostat |-> TPCID_ctor(t, c).Cryostat, TPC |-> TPCID_ctor(t, c).TPC,
   Plane |-> p]

\* PlaneID(CryostatID_t c, TPCID_t t, PlaneID_t p): TPCID(c, t), Plane(p)
PlaneID_ctor(c, t, p) ==
  [type |-> "PlaneID", isValid |-> TPCID_ctor(c, t).isValid,
   Cryostat |-> TPCID_ctor(c, t).Cryostat, TPC |-> TPCID_ctor(c, t).TPC,
   Plane |-> p]
\* A conversion to PlaneID that yields a copy whose validity is not the
\* one of the identifier.
asPlaneID_validity_lost(id) ==
  [type |-> "PlaneID", isValid |-> FALSE, Cryostat |-> id.Cryostat,
   TPC |-> id.TPC, Plane |-> id.Plane]

\* The PlaneID base sub-object (asPlaneID(), planeID()).
asPlaneID(id) ==
  [type |-> "PlaneID", isValid |-> id.isValid, Cryostat |-> id.Cryostat,
   TPC |-> id.TPC, Plane |-> id.Plane]

PlaneID_deepestIndex(id) == id.Plane

PlaneID_deepestIndex_assign(id, v) == [id EXCEPT !.Plane = v]

PlaneID_parentID(id) == asTPCID(id)

\* A PlaneID::cmp that lets the plane index decide before the TPC.
PlaneID_cmp_plane_first(x, other) ==
  LET cmp_res == ThreeWayComparison(PlaneID_deepestIndex(x), PlaneID_deepestIndex(other))
  IN  IF cmp_res = 0 THEN TPCID_cmp(x, other) ELSE cmp_res

\* int cmp(PlaneID const& other) const
PlaneID_cmp(x, other) ==
  LET cmp_res == TPCID_cmp(x, other)
  IN  IF cmp_res = 0
        THEN ThreeWayComparison(PlaneID_deepestIndex(x), PlaneID_deepestIndex(other))
        ELSE cmp_res

(***************************************************************************)
(* geo::WireID: public PlaneID                                             *)
(***************************************************************************)
\* A WireID() whose wire index is zero-initialised.
WireID_default_zero_wire ==
  [type |-> "WireID", isValid |-> PlaneID_default.isValid,
   Cryostat |-> PlaneID_default.Cryostat, TPC |-> PlaneID_default.TPC,
   Plane |-> PlaneID_default.Plane, Wire |-> <<0, 0>>]


WireID_default ==
  [type |-> "WireID", isValid |-> PlaneID_default.isValid,
   Cryostat |-> PlaneID_default.Cryostat, TPC |-> PlaneID_default.TPC,
   Plane |-> PlaneID_default.Plane, Wire |-> InvalidID("WireID")]

\* WireID(PlaneID const& planeid, WireID_t w): PlaneID(planeid), Wire(w)
WireID_nested(planeid, w) ==
  [type |-> "WireID", isValid |-> planeid.isValid,
   Cryostat |-> planeid.Cryostat, TPC |-> planeid.TPC,
   Plane |-> planeid.Plane, Wire |-> w]

\* WireID(CryostatID_t c, TPCID_t t, PlaneID_t p, WireID_t w):
\*   PlaneID(c, t, p), Wire(w)
WireID_ctor(c, t, p, w) ==
  [type |-> "WireID", isValid |-> PlaneID_ctor(c, t, p).isValid,
   Cryostat |-> PlaneID_ctor(c, t, p).Cryostat, TPC |-> PlaneID_ctor(c, t, p).TPC,
   Plane |-> PlaneID_ctor(c, t, p).Plane, Wire |-> w]

\* A WireID without its own deepestIndex(): the one of PlaneID is inherited.
WireID_deepestIndex_inherited(id) == id.Plane


WireID_deepestIndex(id) == id.Wire

WireID_deepestIndex_assign(id, v) == [id EXCEPT !.Wire = v]

WireID_parentID(id) == asPlaneID(id)

\* int cmp(WireID const& other) const
WireID_cmp(x, other) ==
  LET cmp_res == PlaneID_cmp(x, other)
  IN  IF cmp_res = 0
        THEN ThreeWayComparison(WireID_deepestIndex(x), WireID_deepestIndex(other))
        ELSE cmp_res

(***************************************************************************)
(* readout::TPCsetID: public CryostatID (index type unsigned short)        *)
(***************************************************************************)
TPCsetID_default ==
  [type |-> "TPCsetID", isValid |-> CryostatID_default.isValid,
   Cryostat |-> CryostatID_default.Cryostat, TPCset |-> InvalidID("TPCsetID")]

\* TPCsetID(CryostatID const& cryoid, TPCsetID_t s): CryostatID(cryoid), TPCset(s)
TPCsetID_nested(cryoid, s) ==
  [type |-> "TPCsetID", isValid |-> cryoid.isValid,
   Cryostat |-> cryoid.Cryostat, TPCset |-> ToTPCsetID_t(s)]

\* TPCsetID(CryostatID_t c, TPCsetID_t s): CryostatID(c), TPCset(s)
TPCsetID_ctor(c, s) ==
  [type |-> "TPCsetID", isValid |-> CryostatID_ctor(c).isValid,
   Cryostat |-> CryostatID_ctor(c).Cryostat, TPCset |-> ToTPCsetID_t(s)]

\* The TPCsetID base sub-object (asTPCsetID()).
asTPCsetID(id) ==
  [type |-> "TPCsetID", isValid |-> id.isValid, Cryostat |-> id.Cryostat,
   TPCset |-> id.TPCset]

TPCsetID_deepestIndex(id) == id.TPCset

TPCsetID_deepestIndex_assign(id, v) == [id EXCEPT !.TPCset = ToTPCsetID_t(v)]

TPCsetID_parentID(id) == asCryostatID(id)

\* int cmp(TPCsetID const& other) const
TPCsetID_cmp(x, other) ==
  LET cmp_res == CryostatID_cmp(x, other)
  IN  IF cmp_res = 0
        THEN ThreeWayComparison(x.TPCset, other.TPCset)
        ELSE cmp_res

(***************************************************************************)
(* readout::ROPID: public TPCsetID                                         *)
(***************************************************************************)
ROPID_default ==
  [type |-> "ROPID", isValid |-> TPCsetID_default.isValid,
   Cryostat |-> TPCsetID_default.Cryostat, TPCset |-> TPCsetID_default.TPCset,
   ROP |-> InvalidID("ROPID")]

\* ROPID(TPCsetID const& tpcsetid, ROPID_t r): TPCsetID(tpcsetid), ROP(r)
ROPID_nested(tpcsetid, r) ==
  [type |-> "ROPID", isValid |-> tpcsetid.isValid,
   Cryostat |-> tpcsetid.Cryostat, TPCset |-> tpcsetid.TPCset, ROP |-> r]

\* ROPID(CryostatID_t c, TPCsetID_t s, ROPID_t r): TPCsetID(c, s), ROP(r)
ROPID_ctor(c, s, r) ==
  [type |-> "ROPID", isValid |-> TPCsetID_ctor(c, s).isValid,
   Cryostat |-> TPCsetID_ctor(c, s).Cryostat,
   TPCset |-> TPCsetID_ctor(c, s).TPCset, ROP |-> r]

ROPID_deepestIndex(id) == id.ROP

ROPID_deepestIndex_assign(id, v) == [id EXCEPT !.ROP = v]

ROPID_parentID(id) == asTPCsetID(id)

\* int cmp(ROPID const& other) const
ROPID_cmp(x, other) ==
  LET cmp_res == TPCsetID_cmp(x, other)
  IN  IF cmp_res = 0
        THEN ThreeWayComparison(x.ROP, other.ROP)
        ELSE cmp_res

(***************************************************************************)
(* ID comparison operators (geo_types.h, readout_types.h).                 *)
(***************************************************************************)
\* An operator== (CryostatID) that compares the validity flag as well.
CryostatID_eq_with_validity(x, y) ==
  x.Cryostat = y.Cryostat /\ x.isValid = y.isValid

\* bool operator== (CryostatID const& a, CryostatID const& b)
CryostatID_eq(x, y) == x.Cryostat = y.Cryostat

\* bool operator!= (CryostatID const& a, CryostatID const& b)
CryostatID_ne(x, y) == x.Cryostat # y.Cryostat

\* bool operator< (CryostatID const& a, CryostatID const& b)
CryostatID_lt(x, y) == ULess(x.Cryostat, y.Cryostat)

OpDetID_eq(x, y) ==
  CryostatID_eq(asCryostatID(x), asCryostatID(y)) /\ (x.OpDet = y.OpDet)

OpDetID_ne(x, y) ==
  CryostatID_ne(asCryostatID(x), asCryostatID(y)) \/ (x.OpDet # y.OpDet)

OpDetID_lt(x, y) ==
  LET cmp_res == CryostatID_cmp(asCryostatID(x), y)
  IN  IF cmp_res = 0 THEN ULess(x.OpDet, y.OpDet) ELSE cmp_res < 0

TPCID_eq(x, y) ==
  CryostatID_eq(asCryostatID(x), asCryostatID(y)) /\ (x.TPC = y.TPC)

TPCID_ne(x, y) ==
  CryostatID_ne(asCryostatID(x), asCryostatID(y)) \/ (x.TPC # y.TPC)

TPCID_lt(x, y) ==
  LET cmp_res == CryostatID_cmp(asCryostatID(x), y)
  IN  IF cmp_res = 0 THEN ULess(x.TPC, y.TPC) ELSE cmp_res < 0

PlaneID_eq(x, y) == TPCID_eq(asTPCID(x), asTPCID(y)) /\ (x.Plane = y.Plane)

PlaneID_ne(x, y) == TPCID_ne(asTPCID(x), asTPCID(y)) \/ (x.Plane # y.Plane)

PlaneID_lt(x, y) ==
  LET cmp_res == TPCID_cmp(asTPCID(x), y)
  IN  IF cmp_res = 0 THEN ULess(x.Plane, y.Plane) ELSE cmp_res < 0

WireID_eq(x, y) == PlaneID_eq(asPlaneID(x), asPlaneID(y)) /\ (x.Wire = y.Wire)

WireID_ne(x, y) == PlaneID_ne(asPlaneID(x), asPlaneID(y)) \/ (x.Wire # y.Wire)
\* An operator< (WireID) that also holds for equal wire indices.
WireID_lt_or_equal(x, y) ==
  LET cmp_res == PlaneID_cmp(asPlaneID(x), y)
  IN  IF cmp_res = 0 THEN ~ULess(y.Wire, x.Wire) ELSE cmp_res < 0


WireID_lt(x, y) ==
  LET cmp_res == PlaneID_cmp(asPlaneID(x), y)
  IN  IF cmp_res = 0 THEN ULess(x.Wire, y.Wire) ELSE cmp_res < 0

TPCsetID_eq(x, y) ==
  CryostatID_eq(asCryostatID(x), asCryostatID(y)) /\ (x.TPCset = y.TPCset)

TPCsetID_ne(x, y) ==
  CryostatID_ne(asCryostatID(x), asCryostatID(y)) \/ (x.TPCset # y.TPCset)

TPCsetID_lt(x, y) ==
  LET cmp_res == CryostatID_cmp(asCryostatID(x), y)
  IN  IF cmp_res = 0 THEN ULess(x.TPCset, y.TPCset) ELSE cmp_res < 0

ROPID_eq(x, y) == TPCsetID_eq(asTPCsetID(x), asTPCsetID(y)) /\ (x.ROP = y.ROP)

ROPID_ne(x, y) == TPCsetID_ne(asTPCsetID(x), asTPCsetID(y)) \/ (x.ROP # y.ROP)

ROPID_lt(x, y) ==
  LET cmp_res == TPCsetID_cmp(asTPCsetID(x), y)
  IN  IF cmp_res = 0 THEN ULess(x.ROP, y.ROP) ELSE cmp_res < 0

(***************************************************************************)
(* ID output operators: std::ostream& operator<< (std::ostream&, ID const&)*)
(* The stream is the sequence of characters written so far.                *)
(***************************************************************************)
CryostatID_out(out, cid) == out \o <<"C", ":">> \o UIntToChars(cid.Cryostat)

OpDetID_out(out, oid) ==
  CryostatID_out(out, asCryostatID(oid)) \o <<" ", "O", ":">> \o UIntToChars(oid.OpDet)

TPCID_out(out, tid) ==
  CryostatID_out(out, asCryostatID(tid)) \o <<" ", "T", ":">> \o UIntToChars(tid.TPC)
\* An operator<< (PlaneID) that forgets the separating space.
PlaneID_out_no_space(out, pid) ==
  TPCID_out(out, asTPCID(pid)) \o <<"P", ":">> \o UIntToChars(pid.Plane)


PlaneID_out(out, pid) ==
  TPCID_out(out, asTPCID(pid)) \o <<" ", "P", ":">> \o UIntToChars(pid.Plane)

WireID_out(out, wid) ==
  PlaneID_out(out, asPlaneID(wid)) \o <<" ", "W", ":">> \o UIntToChars(wid.Wire)

TPCsetID_out(out, sid) ==
  CryostatID_out(out, asCryostatID(sid)) \o <<" ", "S", ":">> \o UIntToChars(sid.TPCset)

ROPID_out(out, rid) ==
  TPCsetID_out(out, asTPCsetID(rid)) \o <<" ", "R", ":">> \o UIntToChars(rid.ROP)

(***************************************************************************)
(* Calls resolved on the static type of the identifier (overloads, member  *)
(* functions hiding the base class ones, template instantiations).         *)
(***************************************************************************)
\* out << id
StreamOut(out, id) ==
  CASE id.type = "CryostatID" -> CryostatID_out(out, id)
    [] id.type = "OpDetID"    -> OpDetID_out(out, id)
    [] id.type = "TPCID"      -> TPCID_out(out, id)
    [] id.type = "PlaneID"    -> PlaneID_out(out, id)
    [] id.type = "WireID"     -> WireID_out(out, id)
    [] id.type = "TPCsetID"   -> TPCsetID_out(out, id)
    [] id.type = "ROPID"      -> ROPID_out(out, id)

\* details::writeToString(value): std::ostringstream sstr; sstr << value;
\* return sstr.str()
writeToString(value) == StreamOut(<<>>, value)

\* std::string toString() const { return details::writeToString(*this); }
toString(id) == writeToString(id)

\* explicit operator std::string() const { return toString(); }
operator_string(id) == toString(id)

\* id.deepestIndex() const
deepestIndex(id) ==
  CASE id.type = "CryostatID" -> CryostatID_deepestIndex(id)
    [] id.type = "OpDetID"    -> OpDetID_deepestIndex(id)
    [] id.type = "TPCID"      -> TPCID_deepestIndex(id)
    [] id.type = "PlaneID"    -> PlaneID_deepestIndex(id)
    [] id.type = "WireID"     -> WireID_deepestIndex(id)
    [] id.type = "TPCsetID"   -> TPCsetID_deepestIndex(id)
    [] id.type = "ROPID"      -> ROPID_deepestIndex(id)

\* id.deepestIndex() = v
deepestIndex_assign(id, v) ==
  CASE id.type = "CryostatID" -> CryostatID_deepestIndex_assign(id, v)
    [] id.type = "OpDetID"    -> OpDetID_deepestIndex_assign(id, v)
    [] id.type = "TPCID"      -> TPCID_deepestIndex_assign(id, v)
    [] id.type = "PlaneID"    -> PlaneID_deepestIndex_assign(id, v)
    [] id.type = "WireID"     -> WireID_deepestIndex_assign(id, v)
    [] id.type = "TPCsetID"   -> TPCsetID_deepestIndex_assign(id, v)
    [] id.type = "ROPID"      -> ROPID_deepestIndex_assign(id, v)

\* id.parentID() of a derived identifier
parentID(id) ==
  CASE id.type = "OpDetID"    -> OpDetID_parentID(id)
    [] id.type = "TPCID"      -> TPCID_parentID(id)
    [] id.type = "PlaneID"    -> PlaneID_parentID(id)
    [] id.type = "WireID"     -> WireID_parentID(id)
    [] id.type = "TPCsetID"   -> TPCsetID_parentID(id)
    [] id.type = "ROPID"      -> ROPID_parentID(id)

\* x.cmp(other), both of the static type of x
cmp(x, other) ==
  CASE x.type = "CryostatID" -> CryostatID_cmp(x, other)
    [] x.type = "OpDetID"    -> OpDetID_cmp(x, other)
    [] x.type = "TPCID"      -> TPCID_cmp(x, other)
    [] x.type = "PlaneID"    -> PlaneID_cmp(x, other)
    [] x.type = "WireID"     -> WireID_cmp(x, other)
    [] x.type = "TPCsetID"   -> TPCsetID_cmp(x, other)
    [] x.type = "ROPID"      -> ROPID_cmp(x, other)

\* x == y
operator_eq(x, y) ==
  CASE x.type = "CryostatID" -> CryostatID_eq(x, y)
    [] x.type = "OpDetID"    -> OpDetID_eq(x, y)
    [] x.type = "TPCID"      -> TPCID_eq(x, y)
    [] x.type = "PlaneID"    -> PlaneID_eq(x, y)
    [] x.type = "WireID"     -> WireID_eq(x, y)
    [] x.type = "TPCsetID"   -> TPCsetID_eq(x, y)
    [] x.type = "ROPID"      -> ROPID_eq(x, y)

\* x != y
operator_ne(x, y) ==
  CASE x.type = "CryostatID" -> CryostatID_ne(x, y)
    [] x.type = "OpDetID"    -> OpDetID_ne(x, y)
    [] x.type = "TPCID"      -> TPCID_ne(x, y)
    [] x.type = "PlaneID"    -> PlaneID_ne(x, y)
    [] x.type = "WireID"     -> WireID_ne(x, y)
    [] x.type = "TPCsetID"   -> TPCsetID_ne(x, y)
    [] x.type = "ROPID"      -> ROPID_ne(x, y)

\* x < y
operator_lt(x, y) ==
  CASE x.type = "CryostatID" -> CryostatID_lt(x, y)
    [] x.type = "OpDetID"    -> OpDetID_lt(x, y)
    [] x.type = "TPCID"      -> TPCID_lt(x, y)
    [] x.type = "PlaneID"    -> PlaneID_lt(x, y)
    [] x.type = "WireID"     -> WireID_lt(x, y)
    [] x.type = "TPCsetID"   -> TPCsetID_lt(x, y)
    [] x.type = "ROPID"      -> ROPID_lt(x, y)

(***************************************************************************)
(* Level-indexed access (geo::details and the getIndex / writeIndex /      *)
(* getRelIndex members).  A request that the static_assert rejects has no  *)
(* value: the operators are applied only where Index <= Level holds.       *)
(***************************************************************************)
\* A getAbsIDindex that looks no further than the immediate parent.
getAbsIDindex_one_level_up(Index, id) ==
  IF Index = Level(id.type)
    THEN deepestIndex(id)
    ELSE deepestIndex(parentID(id))

\* details::getAbsIDindex<Index>(ID const& id)
RECURSIVE getAbsIDindex(_, _)
getAbsIDindex(Index, id) ==
  IF Index = Level(id.type)
    THEN deepestIndex(id)
    ELSE getAbsIDindex(Index, parentID(id))

\* details::getRelIDindex<UpIndex>(ID const& id)
RECURSIVE getRelIDindex(_, _)
getRelIDindex(UpIndex, id) ==
  IF UpIndex = 0
    THEN deepestIndex(id)
    ELSE getRelIDindex(UpIndex - 1, parentID(id))

\* id.getIndex<Index>()
getIndex(id, Index) == getAbsIDindex(Index, id)

\* id.getRelIndex<Above>(): return getIndex<Level - Above>()
getRelIndex(id, Above) == getIndex(id, Level(id.type) - Above)

\* The derived object `id` after its base sub-object has been changed to
\* `base` through a reference to it (ParentID_t& parentID()).
WithBase(id, base) ==
  [f \in DOMAIN id |->
     IF f # "type" /\ f \in DOMAIN base THEN base[f] ELSE id[f]]

\* `details::getAbsIDindex<Index>(ID& id) = v`: assignment through the
\* reference that the non-const overload returns.
RECURSIVE getAbsIDindex_assign(_, _, _)
getAbsIDindex_assign(Index, id, v) ==
  IF Index = Level(id.type)
    THEN deepestIndex_assign(id, v)
    ELSE WithBase(id, getAbsIDindex_assign(Index, parentID(id), v))

\* `id.writeIndex<Index>() = v` (geometry identifiers only)
writeIndex_assign(id, Index, v) == getAbsIDindex_assign(Index, id, v)

(***************************************************************************)
(* Inputs.                                                                 *)
(***************************************************************************)
\* The values an index of identifier type T is given: 0..MaxIndex and the
\* sentinel of the index type.
IndexValues(T) == {UInt(n) : n \in 0..MaxIndex} \cup {InvalidID(T)}

\* The identifier types from the cryostat down to T.
RECURSIVE TypeChain(_)
TypeChain(T) ==
  IF ParentID_t(T) = "void" THEN <<T>> ELSE Append(TypeChain(ParentID_t(T)), T)

\* The argument lists of the constructor of T taking the flattened indices.
RECURSIVE IndexLists(_)
IndexLists(T) ==
  IF ParentID_t(T) = "void"
    THEN {<<c>> : c \in IndexValues(T)}
    ELSE {Append(l, i) : l \in IndexLists(ParentID_t(T)), i \in IndexValues(T)}

\* T()
DefaultConstructed(T) ==
  CASE T = "CryostatID" -> CryostatID_default
    [] T = "OpDetID"    -> OpDetID_default
    [] T = "TPCID"      -> TPCID_default
    [] T = "PlaneID"    -> PlaneID_default
    [] T = "WireID"     -> WireID_default
    [] T = "TPCsetID"   -> TPCsetID_default
    [] T = "ROPID"      -> ROPID_default

\* T(indices...)
DirectConstructed(T, l) ==
  CASE T = "CryostatID" -> CryostatID_ctor(l[1])
    [] T = "OpDetID"    -> OpDetID_ctor(l[1], l[2])
    [] T = "TPCID"      -> TPCID_ctor(l[1], l[2])
    [] T = "PlaneID"    -> PlaneID_ctor(l[1], l[2], l[3])
    [] T = "WireID"     -> WireID_ctor(l[1], l[2], l[3], l[4])
    [] T = "TPCsetID"   -> TPCsetID_ctor(l[1], l[2])
    [] T = "ROPID"      -> ROPID_ctor(l[1], l[2], l[3])

\* T(parent, index); the argument binds to ParentID_t const&
NestedConstructed(T, parent, i) ==
  CASE T = "OpDetID"    -> OpDetID_nested(asCryostatID(parent), i)
    [] T = "TPCID"      -> TPCID_nested(asCryostatID(parent), i)
    [] T = "PlaneID"    -> PlaneID_nested(asTPCID(parent), i)
    [] T = "WireID"     -> WireID_nested(asPlaneID(parent), i)
    [] T = "TPCsetID"   -> TPCsetID_nested(asCryostatID(parent), i)
    [] T = "ROPID"      -> ROPID_nested(asTPCsetID(parent), i)

\* Every identifier value of type T within the bounds, valid or not.
RECURSIVE Objects(_)
Objects(T) ==
  IF ParentID_t(T) = "void"
    THEN {CryostatID_ctor_valid(c, v) : c \in IndexValues(T), v \in BOOLEAN}
    ELSE {NestedConstructed(T, p, i) :
            p \in Objects(ParentID_t(T)), i \in IndexValues(T)}

(***************************************************************************)
(* The life of one identifier `a`: construction, validity changes, index   *)
(* assignments, end of life.  `last` records the last statement executed   *)
(* and its arguments; `b` is not used here.                                *)
(***************************************************************************)
NoOp == [op |-> "none", type |-> "none", args |-> <<>>]

Init ==
  /\ a = NoID
  /\ b = NoID
  /\ last = NoOp

\* T a;
DefaultConstruct(T) ==
  /\ a = NoID
  /\ a' = DefaultConstructed(T)
  /\ last' = [op |-> "default", type |-> T, args |-> <<>>]
  /\ UNCHANGED b

\* T a(c, ...);
DirectConstruct(T, l) ==
  /\ a = NoID
  /\ a' = DirectConstructed(T, l)
  /\ last' = [op |-> "direct", type |-> T, args |-> l]
  /\ UNCHANGED b

\* geo::CryostatID a(c, valid);
ValidityConstruct(c, valid) ==
  /\ a = NoID
  /\ a' = CryostatID_ctor_valid(c, valid)
  /\ last' = [op |-> "direct_valid", type |-> "CryostatID", args |-> <<c, valid>>]
  /\ UNCHANGED b

\* T next(a, i); the new identifier replaces `a`
NestedConstruct(T, i) ==
  /\ a # NoID
  /\ ParentID_t(T) # "void"
  /\ IsA(a.type, ParentID_t(T))
  /\ a' = NestedConstructed(T, a, i)
  /\ last' = [op |-> "nested", type |-> T, args |-> <<a, i>>]
  /\ UNCHANGED b

\* a.setValidity(valid);
SetValidity(valid) ==
  /\ a # NoID
  /\ a' = CryostatID_setValidity(a, valid)
  /\ last' = [op |-> "setValidity", type |-> a.type, args |-> <<valid>>]
  /\ UNCHANGED b

\* a.markValid();
MarkValid ==
  /\ a # NoID
  /\ a' = CryostatID_markValid(a)
  /\ last' = [op |-> "markValid", type |-> a.type, args |-> <<>>]
  /\ UNCHANGED b

\* a.markInvalid();
MarkInvalid ==
  /\ a # NoID
  /\ a' = CryostatID_markInvalid(a)
  /\ last' = [op |-> "markInvalid", type |-> a.type, args |-> <<>>]
  /\ UNCHANGED b

\* a.deepestIndex() = v;
AssignDeepestIndex ==
  /\ a # NoID
  /\ \E v \in IndexValues(a.type) :
       /\ a' = deepestIndex_assign(a, v)
       /\ last' = [op |-> "deepestIndex", type |-> a.type, args |-> <<v>>]
  /\ UNCHANGED b

\* a.writeIndex<Index>() = v;  (the member exists in the geometry IDs only,
\* and compiles only for Index <= Level)
WriteIndex(Index) ==
  /\ a # NoID
  /\ a.type \in GeoTypes
  /\ Index <= Level(a.type)
  /\ \E v \in IndexValues(TypeChain(a.type)[Index + 1]) :
       /\ a' = writeIndex_assign(a, Index, v)
       /\ last' = [op |-> "writeIndex", type |-> a.type, args |-> <<Index, v>>]
  /\ UNCHANGED b
\* ElementLevel::NLevels
ElementLevel_NLevels == 4

\* An AbsIDtypeStruct whose specialisation is chosen for every Index at or
\* beyond the level of ID, with no static_assert.
AbsIDtypeStruct_clamped(ID, Index) ==
  IF Index >= Level(ID) THEN <<ID>> ELSE <<ParentID_t(ID)>>

\* details::AbsIDtypeStruct<ID, Index>::type (ID::ID_t<Index>): <<type>>, or
\* <<>> where the instantiation is ill-formed (static_assert, or the members
\* of void that the primary template names).
RECURSIVE AbsIDtypeStruct(_, _)
AbsIDtypeStruct(ID, Index) ==
  IF ID = "void"
    THEN <<>>
    ELSE IF Index = Level(ID)
           THEN <<ID>>
           ELSE IF ~(Index <= Level(ID))
                  THEN <<>>
                  ELSE AbsIDtypeStruct(ParentID_t(ID), Index)

\* details::RelIDtypeStruct<ID, UpIndex>::type (ID::UpperID_t<UpIndex>)
RECURSIVE RelIDtypeStruct(_, _)
RelIDtypeStruct(ID, UpIndex) ==
  IF UpIndex = 0
    THEN <<ID>>
    ELSE IF ID = "void"
           THEN <<>>
           ELSE IF ~(UpIndex <= Level(ID))
                  THEN <<>>
                  ELSE RelIDtypeStruct(ParentID_t(ID), UpIndex - 1)

\* static_assert(Index <= Level, ...) of ID::getIndex<Index>()
getIndex_static_assert(ID, Index) == Index <= Level(ID)

\* static_assert(Above <= Level, ...) of ID::getRelIndex<Above>()
getRelIndex_static_assert(ID, Above) == Above <= Level(ID)

\* static_assert(Index <= Level, ...) of ID::writeIndex<Index>(); the
\* readout identifiers declare no writeIndex at all.
writeIndex_static_assert(ID, Index) == ID \in GeoTypes /\ Index <= Level(ID)

\* What the expression of the given kind with template argument n yields on
\* id: <<value>>, or <<>> when the translation unit holding it is rejected.
Instantiate(kind, id, n) ==
  CASE kind = "getIndex" ->
         IF getIndex_static_assert(id.type, n)
           THEN <<getIndex(id, n)>> ELSE <<>>
    [] kind = "getRelIndex" ->
         IF getRelIndex_static_assert(id.type, n)
           THEN <<getRelIndex(id, n)>> ELSE <<>>
    [] kind = "writeIndex_ref" ->
         IF writeIndex_static_assert(id.type, n)
           THEN <<getAbsIDindex(n, id)>> ELSE <<>>
    [] kind = "ID_t" -> AbsIDtypeStruct(id.type, n)
    [] kind = "UpperID_t" -> RelIDtypeStruct(id.type, n)

InstantiationKinds ==
  {"getIndex", "getRelIndex", "writeIndex_ref", "ID_t", "UpperID_t"}

\* a.getIndex<n>(), a.getRelIndex<n>(), a.writeIndex<n>() (read through the
\* reference), decltype(a)::ID_t<n>, decltype(a)::UpperID_t<n>
Request(kind, n) ==
  /\ a # NoID
  /\ last' = [op |-> kind, type |-> a.type, args |-> <<n>>,
              result |-> Instantiate(kind, a, n)]
  /\ UNCHANGED <<a, b>>
\* OpDetID::asOpDetID()
asOpDetID(id) ==
  [type |-> "OpDetID", isValid |-> id.isValid, Cryostat |-> id.Cryostat,
   OpDet |-> id.OpDet]

\* WireID::asWireID()
asWireID(id) ==
  [type |-> "WireID", isValid |-> id.isValid, Cryostat |-> id.Cryostat,
   TPC |-> id.TPC, Plane |-> id.Plane, Wire |-> id.Wire]

\* WireID::planeID()
planeID(id) == asPlaneID(id)

\* ROPID::asROPID()
asROPID(id) ==
  [type |-> "ROPID", isValid |-> id.isValid, Cryostat |-> id.Cryostat,
   TPCset |-> id.TPCset, ROP |-> id.ROP]

\* The type that declares each conversion helper.
ConversionHelpers ==
  [asCryostatID |-> "CryostatID", asOpDetID |-> "OpDetID",
   asTPCID |-> "TPCID", asPlaneID |-> "PlaneID", asWireID |-> "WireID",
   planeID |-> "WireID", asTPCsetID |-> "TPCsetID", asROPID |-> "ROPID"]

\* id.<helper>()
Converted(helper, id) ==
  CASE helper = "parentID"     -> parentID(id)
    [] helper = "asCryostatID" -> asCryostatID(id)
    [] helper = "asOpDetID"    -> asOpDetID(id)
    [] helper = "asTPCID"      -> asTPCID(id)
    [] helper = "asPlaneID"    -> asPlaneID(id)
    [] helper = "asWireID"     -> asWireID(id)
    [] helper = "planeID"      -> planeID(id)
    [] helper = "asTPCsetID"   -> asTPCsetID(id)
    [] helper = "asROPID"      -> asROPID(id)

\* a.parentID(), a.asCryostatID(), ...: a member of the static type of `a`
\* or of one of its bases.
Convert(helper) ==
  /\ a # NoID
  /\ IF helper = "parentID"
       THEN a.type # "CryostatID"
       ELSE IsA(a.type, ConversionHelpers[helper])
  /\ last' = [op |-> "convert", type |-> a.type, args |-> <<helper>>,
              result |-> Converted(helper, a)]
  /\ UNCHANGED <<a, b>>

\* `a` goes out of scope
Destroy ==
  /\ a # NoID
  /\ a' = NoID
  /\ last' = [op |-> "destroy", type |-> a.type, args |-> <<>>]
  /\ UNCHANGED b

Next ==
  \/ \E T \in Types : DefaultConstruct(T)
  \/ \E T \in Types : \E l \in IndexLists(T) : DirectConstruct(T, l)
  \/ \E c \in IndexValues("CryostatID") : \E valid \in BOOLEAN :
       ValidityConstruct(c, valid)
  \/ \E T \in Types \ {"CryostatID"} : \E i \in IndexValues(T) :
       NestedConstruct(T, i)
  \/ \E valid \in BOOLEAN : SetValidity(valid)
  \/ MarkValid
  \/ MarkInvalid
  \/ AssignDeepestIndex
  \/ \E Index \in 0..ElementLevel_Wire : WriteIndex(Index)
  \/ \E kind \in InstantiationKinds : \E n \in 0..ElementLevel_NLevels :
       Request(kind, n)
  \/ \E helper \in DOMAIN ConversionHelpers \cup {"parentID"} :
       Convert(helper)
  \/ Destroy

Spec == Init /\ [][Next]_vars

(***************************************************************************)
(* Two identifiers of one type, any two values within the bounds, and the  *)
(* comparisons of one with the other (TestIDcomparison of the unit tests). *)
(***************************************************************************)
InitPair ==
  /\ \E T \in Types : a \in Objects(T) /\ b \in Objects(T)
  /\ last = NoOp

\* a.cmp(b), b.cmp(a), a == b, a != b, a < b, b < a
Compare ==
  /\ last.op = "none"
  /\ last' = [op |-> "compare", type |-> a.type, args |-> <<>>,
              cmp |-> cmp(a, b), rcmp |-> cmp(b, a),
              eq |-> operator_eq(a, b), ne |-> operator_ne(a, b),
              lt |-> operator_lt(a, b), rlt |-> operator_lt(b, a),
              self |-> cmp(a, a)]
  /\ UNCHANGED <<a, b>>

NextPair == Compare

SpecPair == InitPair /\ [][NextPair]_vars

(***************************************************************************)
(* Vocabulary of the properties.                                           *)
(***************************************************************************)
\* The data member holding the index of the level of identifier type T.
IndexField(T) ==
  CASE T = "CryostatID" -> "Cryostat"
    [] T = "OpDetID"    -> "OpDet"
    [] T = "TPCID"      -> "TPC"
    [] T = "PlaneID"    -> "Plane"
    [] T = "WireID"     -> "Wire"
    [] T = "TPCsetID"   -> "TPCset"
    [] T = "ROPID"      -> "ROP"

\* The indices of an identifier from the cryostat index down to its own.
IndexTuple(id) ==
  [k \in 1..Len(TypeChain(id.type)) |-> id[IndexField(TypeChain(id.type)[k])]]

\* s is lexicographically less than t (index tuples of equal length).
LexLess(s, t) ==
  \E k \in 1..Len(s) :
    /\ \A j \in 1..(k - 1) : s[j] = t[j]
    /\ ULess(s[k], t[k])

(***************************************************************************)
(* C1: for two identifiers a, b of one type, a.cmp(b) is negative, zero or *)
(* positive exactly when the index tuple of a (cryostat index first, own   *)
(* index last) is lexicographically less than, equal to or greater than    *)
(* the index tuple of b.                                                   *)
(***************************************************************************)
C1_CmpIsLexicographic ==
  last.op = "compare" =>
    /\ (last.cmp < 0) <=> LexLess(IndexTuple(a), IndexTuple(b))
    /\ (last.cmp = 0) <=> (IndexTuple(a) = IndexTuple(b))
    /\ (last.cmp > 0) <=> LexLess(IndexTuple(b), IndexTuple(a))

\* Two planes of one cryostat: the TPC index of a is the smaller one, its
\* plane index the larger one, and a.cmp(b) is negative.
C1_Witness ==
  /\ last.op = "compare"
  /\ a.type = "PlaneID"
  /\ a.Cryostat = b.Cryostat
  /\ ULess(a.TPC, b.TPC)
  /\ ULess(b.Plane, a.Plane)
  /\ last.cmp < 0

(***************************************************************************)
(* C2: a.cmp(b) < 0 exactly when a < b, exactly when b.cmp(a) > 0;         *)
(* a.cmp(b) = 0 exactly when a == b; a.cmp(a) = 0.                         *)
(***************************************************************************)
C2_CmpAgreesWithOperators ==
  last.op = "compare" =>
    /\ (last.cmp < 0) <=> last.lt
    /\ last.lt <=> (last.rcmp > 0)
    /\ (last.cmp = 0) <=> last.eq
    /\ last.self = 0

\* Two wires of one plane, a before b.
C2_Witness ==
  /\ last.op = "compare"
  /\ a.type = "WireID"
  /\ asPlaneID(a) = asPlaneID(b)
  /\ last.lt
  /\ last.cmp < 0
  /\ last.rcmp > 0
  /\ ~last.eq

(***************************************************************************)
(* C3: a == b holds exactly when all the indices of a and b are equal,     *)
(* whatever the validity flags: with equal indices and different validity  *)
(* a == b holds, a != b does not, and a.cmp(b) is 0.                       *)
(***************************************************************************)
C3_EqualityIgnoresValidity ==
  last.op = "compare" =>
    /\ last.eq <=> (IndexTuple(a) = IndexTuple(b))
    /\ (IndexTuple(a) = IndexTuple(b) /\ a.isValid # b.isValid) =>
         (last.eq /\ ~last.ne /\ last.cmp = 0)

\* Equal indices, one identifier valid and the other not.
C3_Witness ==
  /\ last.op = "compare"
  /\ a.type = "ROPID"
  /\ IndexTuple(a) = IndexTuple(b)
  /\ a.isValid /\ ~b.isValid
  /\ last.eq /\ ~last.ne /\ last.cmp = 0

(***************************************************************************)
(* C4: a default-constructed identifier of every level is invalid          *)
(* (isValid false, bool(id) false) and each of its indices, from the       *)
(* cryostat index down to its own, holds the sentinel InvalidID of the     *)
(* identifier type of that level.                                          *)
(***************************************************************************)
C4_DefaultConstructedInvalid ==
  last.op = "default" =>
    /\ a.type = last.type
    /\ a.isValid = FALSE
    /\ CryostatID_bool(a) = FALSE
    /\ \A k \in 1..Len(TypeChain(a.type)) :
         IndexTuple(a)[k] = InvalidID(TypeChain(a.type)[k])

\* A WireID right after its default construction.
C4_Witness ==
  /\ last.op = "default"
  /\ a.type = "WireID"
  /\ ~a.isValid
  /\ a.Wire = UINT_MAX

(***************************************************************************)
(* C5: after setValidity(v), markValid() or markInvalid() on an identifier *)
(* of any level its validity is v, true or false respectively, and in      *)
(* every state bool(id) = isValid and !id = !isValid.                      *)
(***************************************************************************)
C5_ValidityFollowsLastCall ==
  /\ a # NoID =>
       /\ CryostatID_bool(a) = a.isValid
       /\ CryostatID_not(a) = ~a.isValid
  /\ last.op = "setValidity" => a.isValid = last.args[1]
  /\ last.op = "markValid" => a.isValid = TRUE
  /\ last.op = "markInvalid" => a.isValid = FALSE

\* A wire identifier that setValidity(false) has just made invalid.
C5_Witness ==
  /\ last.op = "setValidity"
  /\ last.args[1] = FALSE
  /\ a.type = "WireID"
  /\ a.Wire = UInt(0)
  /\ ~CryostatID_bool(a)
  /\ CryostatID_not(a)

RECURSIVE Chained(_, _)
Chained(T, l) ==
  IF ParentID_t(T) = "void"
    THEN CryostatID_ctor(l[1])
    ELSE NestedConstructed(T, Chained(ParentID_t(T), SubSeq(l, 1, Len(l) - 1)),
                           l[Len(l)])

C7_FlattenedEqualsChained ==
  /\ last.op = "direct" =>
       LET chained == Chained(last.type, last.args)
       IN  /\ a = chained
           /\ operator_eq(a, chained)
           /\ cmp(a, chained) = 0
  /\ (last.op = "nested" /\ last.args[1].isValid) =>
       a = DirectConstructed(last.type,
             Append(SubSeq(IndexTuple(last.args[1]), 1, Level(last.type)),
                    last.args[2]))

\* A valid wire identifier built from a plane identifier and a wire index.
C7_Witness ==
  /\ last.op = "nested"
  /\ last.type = "WireID"
  /\ last.args[1].type = "PlaneID"
  /\ last.args[1].isValid
  /\ a = WireID_ctor(UInt(1), UInt(0), UInt(1), UInt(0))

(***************************************************************************)
(* C8: deepestIndex(), const and non-const, is the index member of the     *)
(* identifier's own level and never a parent's: reading it gives the own   *)
(* index, and assigning through it changes the own index and nothing else. *)
(***************************************************************************)
C8_DeepestIndexIsOwnIndex ==
  /\ [](a # NoID => deepestIndex(a) = a[IndexField(a.type)])
  /\ [](last.op = "direct" => deepestIndex(a) = last.args[Len(last.args)])
  /\ [][last'.op = "deepestIndex" =>
          a' = [a EXCEPT ![IndexField(a.type)] = last'.args[1]]]_vars

\* A wire identifier whose wire index was assigned through deepestIndex()
\* and differs from its plane index.
C8_Witness ==
  /\ last.op = "deepestIndex"
  /\ last.args[1] = UInt(1)
  /\ a.type = "WireID"
  /\ a.Plane = UInt(0)
  /\ a.Wire = UInt(1)
  /\ deepestIndex(a) = UInt(1)

(***************************************************************************)
(* C9: toString(), the std::string conversion and the stream output of an  *)
(* identifier are the tokens <Tag>:<index> from the cryostat level down to *)
(* its own level, separated by exactly one space, with the tags C, O, T,   *)
(* P, W, S, R and the index in decimal; the validity flag is not rendered. *)
(***************************************************************************)
\* The tag letter of the level of identifier type T.
Tag(T) ==
  CASE T = "CryostatID" -> "C"
    [] T = "OpDetID"    -> "O"
    [] T = "TPCID"      -> "T"
    [] T = "PlaneID"    -> "P"
    [] T = "WireID"     -> "W"
    [] T = "TPCsetID"   -> "S"
    [] T = "ROPID"      -> "R"

\* The pieces of s between the occurrences of the character ch.
RECURSIVE SplitAt(_, _)
SplitAt(s, ch) ==
  IF \A k \in 1..Len(s) : s[k] # ch
    THEN <<s>>
    ELSE LET k == CHOOSE i \in 1..Len(s) :
                    s[i] = ch /\ \A j \in 1..(i - 1) : s[j] # ch
         IN  <<SubSeq(s, 1, k - 1)>> \o SplitAt(SubSeq(s, k + 1, Len(s)), ch)

DecimalDigits == {"0", "1", "2", "3", "4", "5", "6", "7", "8", "9"}

DigitValue(c) ==
  CASE c = "0" -> 0 [] c = "1" -> 1 [] c = "2" -> 2 [] c = "3" -> 3
    [] c = "4" -> 4 [] c = "5" -> 5 [] c = "6" -> 6 [] c = "7" -> 7
    [] c = "8" -> 8 [] c = "9" -> 9

\* d is a decimal numeral: digits only, no leading zero.
IsDecimal(d) ==
  /\ Len(d) >= 1
  /\ \A k \in 1..Len(d) : d[k] \in DecimalDigits
  /\ Len(d) > 1 => d[1] # "0"

\* The unsigned value (in 16-bit limbs) that the decimal numeral d denotes.
RECURSIVE DecimalValue(_)
DecimalValue(d) ==
  IF Len(d) = 0
    THEN <<0, 0>>
    ELSE LET front == DecimalValue(SubSeq(d, 1, Len(d) - 1))
             low   == (front[2] * 10) + DigitValue(d[Len(d)])
         IN  <<(front[1] * 10) + (low \div 65536), low % 65536>>

C9_RenderingFormat ==
  /\ a # NoID =>
       LET str   == toString(a)
           toks  == SplitAt(str, " ")
           chain == TypeChain(a.type)
       IN  /\ operator_string(a) = str
           /\ StreamOut(<<"[">>, a) = <<"[">> \o str
           /\ Len(toks) = Len(chain)
           /\ \A k \in 1..Len(toks) :
                LET tok == toks[k]
                    num == SubSeq(tok, 3, Len(tok))
                IN  /\ Len(tok) >= 3
                    /\ tok[1] = Tag(chain[k])
                    /\ tok[2] = ":"
                    /\ IsDecimal(num)
                    /\ DecimalValue(num) = IndexTuple(a)[k]
           /\ toString(CryostatID_setValidity(a, ~a.isValid)) = str
  /\ toString(WireID_ctor(UInt(1), UInt(5), UInt(2), UInt(9)))
       = <<"C", ":", "1", " ", "T", ":", "5", " ", "P", ":", "2", " ",
           "W", ":", "9">>
  /\ toString(ROPID_ctor(UInt(0), UInt(1), UInt(2)))
       = <<"C", ":", "0", " ", "S", ":", "1", " ", "R", ":", "2">>

\* WireID(1, 0, 1, InvalidID) renders as "C:1 T:0 P:1 W:4294967295".
C9_Witness ==
  /\ a # NoID
  /\ a.type = "WireID"
  /\ a.isValid
  /\ toString(a)
       = <<"C", ":", "1", " ", "T", ":", "0", " ", "P", ":", "1", " ",
           "W", ":", "4", "2", "9", "4", "9", "6", "7", "2", "9", "5">>

(***************************************************************************)
(* C10: for an identifier of level N, getIndex<L>() (L <= N) is the index  *)
(* stored at absolute level L and getRelIndex<A>() (A <= N) the index A    *)
(* levels above the own one: getRelIndex<A>() = getIndex<N - A>(),         *)
(* getRelIndex<0>() = deepestIndex(), getIndex<0>() is the cryostat index. *)
(***************************************************************************)
C10_LevelIndexedAccess ==
  /\ a # NoID =>
       LET N == Level(a.type)
       IN  /\ \A L \in 0..N : getIndex(a, L) = IndexTuple(a)[L + 1]
           /\ \A A \in 0..N :
                /\ getRelIndex(a, A) = IndexTuple(a)[(N - A) + 1]
                /\ getRelIndex(a, A) = getIndex(a, N - A)
                /\ getRelIDindex(A, a) = getRelIndex(a, A)
           /\ getRelIndex(a, 0) = deepestIndex(a)
           /\ getIndex(a, 0) = a.Cryostat
  /\ last.op = "writeIndex" => getIndex(a, last.args[1]) = last.args[2]

\* A wire identifier with cryostat 0, TPC 1, plane 0, wire 1.
C10_Witness ==
  /\ a # NoID
  /\ a.type = "WireID"
  /\ getIndex(a, 0) = UInt(0)
  /\ getIndex(a, 1) = UInt(1)
  /\ getRelIndex(a, 1) = UInt(0)
  /\ getRelIndex(a, 0) = UInt(1)
  /\ a.Cryostat = UInt(0) /\ a.TPC = UInt(1)
  /\ a.Plane = UInt(0) /\ a.Wire = UInt(1)

(***************************************************************************)
(* C11: the Level constant of each identifier type is its depth in the     *)
(* hierarchy, the length of its ParentID_t chain as geoElementLevel        *)
(* computes it: CryostatID 0, OpDetID 1, TPCID 1, PlaneID 2, WireID 3,     *)
(* TPCsetID 1, ROPID 2; the Level of a type is its parent's Level plus 1.  *)
(***************************************************************************)
C11_LevelIsDepth ==
  /\ \A T \in Types :
       /\ Level(T) = geoElementLevel(T)
       /\ Level(T) = Len(TypeChain(T)) - 1
       /\ ParentID_t(T) # "void" => Level(T) = Level(ParentID_t(T)) + 1
       /\ ParentID_t(T) = "void" => Level(T) = 0
  /\ <<Level("CryostatID"), Level("OpDetID"), Level("TPCID"),
       Level("PlaneID"), Level("WireID"), Level("TPCsetID"), Level("ROPID")>>
       = <<0, 1, 1, 2, 3, 1, 2>>
  /\ a # NoID => /\ Level(a.type) = geoElementLevel(a.type)
                 /\ Level(a.type) + 1 = Len(IndexTuple(a))

\* A wire identifier: three ancestors, level 3.
C11_Witness ==
  /\ a # NoID
  /\ a.type = "WireID"
  /\ geoElementLevel(a.type) = 3
  /\ Level(ParentID_t(a.type)) = 2

(***************************************************************************)
(* C12: a request for the index (getIndex, writeIndex, getRelIndex) or the *)
(* ID type (ID_t, UpperID_t) at a level deeper than the identifier's own,  *)
(* or more levels up than it has ancestors, is rejected at instantiation:  *)
(* it yields no value, and the identifier is as it was.                    *)
(***************************************************************************)
C12_TooDeepIsRejected ==
  /\ [](\A T \in Types : \A n \in 0..ElementLevel_NLevels :
          n > Level(T) =>
            /\ AbsIDtypeStruct(T, n) = <<>>
            /\ RelIDtypeStruct(T, n) = <<>>
            /\ ~getIndex_static_assert(T, n)
            /\ ~getRelIndex_static_assert(T, n)
            /\ ~writeIndex_static_assert(T, n))
  /\ []((last.op \in InstantiationKinds /\ last.args[1] > Level(last.type))
          => last.result = <<>>)
  /\ [][last'.op \in InstantiationKinds => a' = a]_vars

\* PlaneID::ID_t<3> is rejected while PlaneID::ID_t<1> is TPCID.
C12_Witness ==
  /\ last.op = "ID_t"
  /\ a.type = "PlaneID"
  /\ last.args = <<3>>
  /\ last.result = <<>>
  /\ AbsIDtypeStruct(a.type, 1) = <<"TPCID">>
  /\ Instantiate("getRelIndex", a, 2) = <<a.Cryostat>>

(***************************************************************************)
(* C13: InvalidID (and getInvalidID()) of every identifier type is the     *)
(* maximum of the type's unsigned index type: 2^32 - 1 = 4294967295 for    *)
(* the cryostat, optical detector, TPC, plane, wire and readout-plane      *)
(* indices, 2^16 - 1 = 65535 for the TPC-set index.                        *)
(***************************************************************************)
C13_InvalidIDIsMaximum ==
  /\ \A T \in Types \ {"TPCsetID"} :
       /\ InvalidID(T) = <<65535, 65535>>
       /\ UIntToChars(InvalidID(T))
            = <<"4", "2", "9", "4", "9", "6", "7", "2", "9", "5">>
  /\ InvalidID("TPCsetID") = <<0, 65535>>
  /\ UIntToChars(InvalidID("TPCsetID")) = <<"6", "5", "5", "3", "5">>
  /\ \A T \in Types : \A v \in IndexValues(T) : ~ULess(InvalidID(T), v)
  /\ (a # NoID /\ last.op = "default") =>
       \A k \in 1..Len(IndexTuple(a)) :
         IndexTuple(a)[k] = InvalidID(TypeChain(a.type)[k])

\* A default-constructed TPC-set identifier: cryostat 4294967295, set 65535.
C13_Witness ==
  /\ last.op = "default"
  /\ a.type = "TPCsetID"
  /\ a.Cryostat = <<65535, 65535>>
  /\ a.TPCset = <<0, 65535>>
  /\ ULess(a.TPCset, a.Cryostat)

(***************************************************************************)
(* C14: no operation rejects a sentinel index.  Construction from explicit *)
(* indices some of which equal InvalidID succeeds and gives isValid ==     *)
(* true; the identifier so built from sentinels only compares equal (==,   *)
(* cmp == 0) to the default-constructed one, which is invalid.             *)
(***************************************************************************)
C14_SentinelIsAccepted ==
  (last.op = "direct"
     /\ \E k \in 1..Len(last.args) :
          last.args[k] = InvalidID(TypeChain(last.type)[k]))
  => /\ a # NoID
     /\ a.type = last.type
     /\ a.isValid
     /\ CryostatID_bool(a)
     /\ IndexTuple(a) = last.args
     /\ (\A k \in 1..Len(last.args) :
           last.args[k] = InvalidID(TypeChain(last.type)[k]))
        => LET d == DefaultConstructed(last.type)
           IN  /\ ~d.isValid
               /\ operator_eq(a, d) /\ operator_eq(d, a)
               /\ ~operator_ne(a, d)
               /\ cmp(a, d) = 0 /\ cmp(d, a) = 0
               /\ ~operator_lt(a, d) /\ ~operator_lt(d, a)
               /\ toString(a) = toString(d)

\* ROPID(InvalidID, InvalidID, InvalidID): valid, and equal to ROPID().
C14_Witness ==
  /\ last.op = "direct"
  /\ a.type = "ROPID"
  /\ a.isValid
  /\ a.Cryostat = UINT_MAX /\ a.TPCset = USHRT_MAX /\ a.ROP = UINT_MAX
  /\ operator_eq(a, ROPID_default)
  /\ a # ROPID_default

(***************************************************************************)
(* C15: the upcast helpers of an identifier (parentID(), asCryostatID(),   *)
(* asTPCID(), asPlaneID(), planeID(), asTPCsetID() and the as<Own>ID()     *)
(* self conversions) give an identifier of the ancestor type whose indices *)
(* and isValid equal the corresponding fields of the identifier, and the   *)
(* call changes no field of the identifier.                                *)
(***************************************************************************)
\* The type each helper converts an identifier of type T to.
ConversionTarget(helper, T) ==
  CASE helper = "parentID"     -> TypeChain(T)[Len(TypeChain(T)) - 1]
    [] helper = "asCryostatID" -> "CryostatID"
    [] helper = "asOpDetID"    -> "OpDetID"
    [] helper = "asTPCID"      -> "TPCID"
    [] helper = "asPlaneID"    -> "PlaneID"
    [] helper = "asWireID"     -> "WireID"
    [] helper = "planeID"      -> "PlaneID"
    [] helper = "asTPCsetID"   -> "TPCsetID"
    [] helper = "asROPID"      -> "ROPID"

C15_UpcastPreservesFields ==
  /\ [](last.op = "convert" =>
          LET r      == last.result
              target == ConversionTarget(last.args[1], a.type)
              chain  == TypeChain(target)
          IN  /\ r.type = target
              /\ DOMAIN r = {"type", "isValid"}
                              \cup {IndexField(chain[k]) : k \in 1..Len(chain)}
              /\ r.isValid = a.isValid
              /\ \A k \in 1..Len(chain) :
                   r[IndexField(chain[k])] = a[IndexField(chain[k])]
              /\ IndexTuple(r) = SubSeq(IndexTuple(a), 1, Len(chain)))
  /\ [][last'.op = "convert" => a' = a]_vars

\* planeID() of an invalid wire identifier with distinguishable indices.
C15_Witness ==
  /\ last.op = "convert"
  /\ last.args = <<"planeID">>
  /\ a.type = "WireID"
  /\ ~a.isValid
  /\ a.Cryostat = UInt(0) /\ a.TPC = UInt(1)
  /\ a.Plane = UInt(0) /\ a.Wire = UInt(1)
  /\ last.result = [type |-> "PlaneID", isValid |-> FALSE,
                    Cryostat |-> UInt(0), TPC |-> UInt(1), Plane |-> UInt(0)]

(***************************************************************************)
(* sumdata::RunData (SummaryData/RunData.h, RunData.cxx).  A std::string   *)
(* is the sequence of its characters.  In SpecRunData `a` and `b` are two  *)
(* RunData objects and `last` the last statement with its outcome.         *)
(***************************************************************************)
MaxDetectors == 4

\* The detector names given to the constructor.
DetectorNames == {<<"d", "e", "t", DigitChar(n)>> : n \in 1..MaxDetectors}

\* RunData::RunData(): fDetName("nodetectorname")
RunData_default ==
  [type |-> "RunData",
   fDetName |->
    <<"n", "o", "d", "e", "t", "e", "c", "t", "o", "r", "n", "a", "m", "e">>]

\* RunData::RunData(std::string const& detectorName): fDetName(detectorName)
RunData_ctor(detectorName) == [type |-> "RunData", fDetName |-> detectorName]

\* std::string const& RunData::DetName() const
DetName(rd) == rd.fDetName

\* An aggregate() that settles a disagreement by taking the other name.
RunData_aggregate_adopts_other(this, other) ==
  [thrown |-> FALSE, what |-> <<>>,
   this |-> [this EXCEPT !.fDetName = DetName(other)], other |-> other]

\* void RunData::aggregate(RunData const& other): whether std::runtime_error
\* is thrown, its what(), and the two objects after the call.
RunData_aggregate(this, other) ==
  IF DetName(other) # DetName(this)
    THEN [thrown |-> TRUE,
          what |->
            <<"T", "h", "e", " ", "s", "a", "m", "e", " ", "r", "u", "n",
              " ", "s", "e", "e", "s", " ", "d", "i", "f", "f", "e", "r",
              "e", "n", "t", " ", "d", "e", "t", "e", "c", "t", "o", "r",
              " ", "s", "e", "t", "u", "p", "s", ":", " ", "'">>
            \o DetName(this) \o <<"'", " ", "a", "n", "d", " ", "'">>
            \o DetName(other),
          this |-> this, other |-> other]
    ELSE [thrown |-> FALSE, what |-> <<>>, this |-> this, other |-> other]

\* sumdata::RunData a;  /  sumdata::RunData b;
RunDataDefaultConstruct(which) ==
  /\ IF which = "a" THEN a = NoID ELSE b = NoID
  /\ a' = IF which = "a" THEN RunData_default ELSE a
  /\ b' = IF which = "b" THEN RunData_default ELSE b
  /\ last' = [op |-> "default", type |-> "RunData", args |-> <<which>>]

\* sumdata::RunData a(name);  /  sumdata::RunData b(name);
RunDataConstruct(which, name) ==
  /\ IF which = "a" THEN a = NoID ELSE b = NoID
  /\ a' = IF which = "a" THEN RunData_ctor(name) ELSE a
  /\ b' = IF which = "b" THEN RunData_ctor(name) ELSE b
  /\ last' = [op |-> "direct", type |-> "RunData", args |-> <<which, name>>]

\* try { a.aggregate(b); } catch (std::runtime_error const& e) { ... }
\* (which = "a"), or the same with b.aggregate(a) (which = "b")
RunDataAggregate(which) ==
  /\ a # NoID
  /\ b # NoID
  /\ LET r == IF which = "a"
                THEN RunData_aggregate(a, b)
                ELSE RunData_aggregate(b, a)
     IN  /\ a' = IF which = "a" THEN r.this ELSE r.other
         /\ b' = IF which = "a" THEN r.other ELSE r.this
         /\ last' = [op |-> "aggregate", type |-> "RunData",
                     args |-> IF which = "a"
                                THEN <<which, DetName(a), DetName(b)>>
                                ELSE <<which, DetName(b), DetName(a)>>,
                     thrown |-> r.thrown, what |-> r.what]

\* `a` or `b` goes out of scope
RunDataDestroy(which) ==
  /\ IF which = "a" THEN a # NoID ELSE b # NoID
  /\ a' = IF which = "a" THEN NoID ELSE a
  /\ b' = IF which = "b" THEN NoID ELSE b
  /\ last' = [op |-> "destroy", type |-> "RunData", args |-> <<which>>]

NextRunData ==
  \/ \E which \in {"a", "b"} : RunDataDefaultConstruct(which)
  \/ \E which \in {"a", "b"} : \E name \in DetectorNames :
       RunDataConstruct(which, name)
  \/ \E which \in {"a", "b"} : RunDataAggregate(which)
  \/ \E which \in {"a", "b"} : RunDataDestroy(which)

SpecRunData == Init /\ [][NextRunData]_vars

(***************************************************************************)
(* C16: a.aggregate(b) completes without error when a.DetName() ==         *)
(* b.DetName() and fails with a runtime error whose message contains both  *)
(* detector names when they differ; either way the detector names of a and *)
(* of b after the call are those before it.                                *)
(***************************************************************************)
\* Whether the string t occurs in the string s.
Contains(s, t) ==
  \E i \in 0..(Len(s) - Len(t)) : SubSeq(s, i + 1, i + Len(t)) = t

C16_AggregateChecksDetName ==
  /\ [](last.op = "aggregate" =>
          LET this  == IF last.args[1] = "a" THEN a ELSE b
              other == IF last.args[1] = "a" THEN b ELSE a
          IN  /\ DetName(this) = last.args[2]
              /\ DetName(other) = last.args[3]
              /\ last.thrown <=> (last.args[2] # last.args[3])
              /\ last.thrown => /\ Contains(last.what, last.args[2])
                                /\ Contains(last.what, last.args[3]))
  /\ [][last'.op = "aggregate" => (a' = a /\ b' = b)]_vars

\* A failed aggregation of a default-constructed record with one of "det2".
C16_Witness ==
  /\ last.op = "aggregate"
  /\ last.args[1] = "a"
  /\ last.thrown
  /\ DetName(a) = RunData_default.fDetName
  /\ DetName(b) = <<"d", "e", "t", "2">>
  /\ Contains(last.what, <<"'", "d", "e", "t", "2">>)

(***************************************************************************)
(* sumdata::POTSummary (SummaryData/POTSummary.h).  The two double         *)
(* counters hold small whole numbers, which double represents and adds     *)
(* exactly.  In SpecPOTSummary `a` and `b` are two POTSummary objects.     *)
(***************************************************************************)
MaxPOT == 2

POTSummaryFields == {"totpot", "totgoodpot", "totspills", "goodspills"}

\* A default constructor that counts the record itself as one spill.
POTSummary_default_one_spill ==
  [type |-> "POTSummary", totpot |-> 0, totgoodpot |-> 0,
   totspills |-> 1, goodspills |-> 0]

\* POTSummary() = default, with the default member initialisers
POTSummary_default ==
  [type |-> "POTSummary", totpot |-> 0, totgoodpot |-> 0,
   totspills |-> 0, goodspills |-> 0]

\* void POTSummary::aggregate(POTSummary const& other): the object after
\* the call (declared in POTSummary.h; field-wise addition).
POTSummary_aggregate(this, other) ==
  [type |-> "POTSummary",
   totpot     |-> this.totpot + other.totpot,
   totgoodpot |-> this.totgoodpot + other.totgoodpot,
   totspills  |-> this.totspills + other.totspills,
   goodspills |-> this.goodspills + other.goodspills]

\* sumdata::POTSummary a;  /  sumdata::POTSummary b;
POTSummaryConstruct(which) ==
  /\ IF which = "a" THEN a = NoID ELSE b = NoID
  /\ a' = IF which = "a" THEN POTSummary_default ELSE a
  /\ b' = IF which = "b" THEN POTSummary_default ELSE b
  /\ last' = [op |-> "default", type |-> "POTSummary", args |-> <<which>>]

\* a.<field> = v;  /  b.<field> = v;  (public data members)
POTSummaryAssign(which, field, v) ==
  /\ IF which = "a" THEN a # NoID ELSE b # NoID
  /\ a' = IF which = "a" THEN [a EXCEPT ![field] = v] ELSE a
  /\ b' = IF which = "b" THEN [b EXCEPT ![field] = v] ELSE b
  /\ last' = [op |-> "assign", type |-> "POTSummary",
              args |-> <<which, field, v>>]

\* a.aggregate(b);
POTSummaryAggregate ==
  /\ a # NoID
  /\ b # NoID
  /\ \A f \in POTSummaryFields : a[f] + b[f] <= MaxPOT
  /\ a' = POTSummary_aggregate(a, b)
  /\ b' = b
  /\ last' = [op |-> "aggregate", type |-> "POTSummary", args |-> <<a, b>>]

\* `a` or `b` goes out of scope
POTSummaryDestroy(which) ==
  /\ IF which = "a" THEN a # NoID ELSE b # NoID
  /\ a' = IF which = "a" THEN NoID ELSE a
  /\ b' = IF which = "b" THEN NoID ELSE b
  /\ last' = [op |-> "destroy", type |-> "POTSummary", args |-> <<which>>]

NextPOTSummary ==
  \/ \E which \in {"a", "b"} : POTSummaryConstruct(which)
  \/ \E which \in {"a", "b"} : \E field \in POTSummaryFields :
       \E v \in 0..1 : POTSummaryAssign(which, field, v)
  \/ POTSummaryAggregate
  \/ \E which \in {"a", "b"} : POTSummaryDestroy(which)

SpecPOTSummary == Init /\ [][NextPOTSummary]_vars

(***************************************************************************)
(* C17: a.aggregate(b) adds each of b's four counters to the matching      *)
(* counter of a (totpot, totgoodpot, totspills, goodspills), leaves b      *)
(* unchanged and has no failure outcome: {10, 5, 2, 1} aggregated with     *)
(* {3, 1, 1, 1} is {13, 6, 3, 2}; a default-constructed POTSummary has     *)
(* all four counters equal to 0.                                           *)
(***************************************************************************)
C17_AggregateAddsCounters ==
  /\ last.op = "aggregate" =>
       /\ \A f \in POTSummaryFields : a[f] = last.args[1][f] + last.args[2][f]
       /\ b = last.args[2]
  /\ last.op = "default" =>
       \A f \in POTSummaryFields :
         (IF last.args[1] = "a" THEN a ELSE b)[f] = 0
  /\ POTSummary_aggregate(
       [type |-> "POTSummary", totpot |-> 10, totgoodpot |-> 5,
        totspills |-> 2, goodspills |-> 1],
       [type |-> "POTSummary", totpot |-> 3, totgoodpot |-> 1,
        totspills |-> 1, goodspills |-> 1])
       = [type |-> "POTSummary", totpot |-> 13, totgoodpot |-> 6,
          totspills |-> 3, goodspills |-> 2]

\* {1, 0, 1, 0} aggregated with {1, 1, 1, 1}.
C17_Witness ==
  /\ last.op = "aggregate"
  /\ last.args[1].totgoodpot = 0
  /\ a = [type |-> "POTSummary", totpot |-> 2, totgoodpot |-> 1,
          totspills |-> 2, goodspills |-> 1]
  /\ b = [type |-> "POTSummary", totpot |-> 1, totgoodpot |-> 1,
          totspills |-> 1, goodspills |-> 1]

(***************************************************************************)
(* geo::SigType_t and geo::SignalTypeName (geo_types.h, geo_types.cxx).    *)
(* In SpecSignalType `a` is the value of the argument, an enumerator or    *)
(* another value converted to SigType_t, and `last` the call's outcome.    *)
(***************************************************************************)
kInduction == 0
kCollection == 1
kMysteryType == 2

MaxSigType == 63

\* std::to_string(int) of a non-negative value
to_string(n) == UIntToChars(UInt(n))

\* A SignalTypeName whose switch ends in `default: return "unknown";`.
SignalTypeName_default_unknown(sigType) ==
  [thrown |-> FALSE, what |-> <<>>,
   value |-> CASE sigType = kInduction  ->
                <<"i", "n", "d", "u", "c", "t", "i", "o", "n">>
               [] sigType = kCollection ->
                <<"c", "o", "l", "l", "e", "c", "t", "i", "o", "n">>
               [] OTHER ->
                <<"u", "n", "k", "n", "o", "w", "n">>]

\* std::string geo::SignalTypeName(geo::SigType_t sigType): the returned
\* string, or the std::logic_error thrown and its what().
SignalTypeName(sigType) ==
  CASE sigType = kInduction ->
         [thrown |-> FALSE, what |-> <<>>,
          value |->
            <<"i", "n", "d", "u", "c", "t", "i", "o", "n">>]
    [] sigType = kCollection ->
         [thrown |-> FALSE, what |-> <<>>,
          value |->
            <<"c", "o", "l", "l", "e", "c", "t", "i", "o", "n">>]
    [] sigType = kMysteryType ->
         [thrown |-> FALSE, what |-> <<>>,
          value |->
            <<"u", "n", "k", "n", "o", "w", "n">>]
    [] OTHER ->
         [thrown |-> TRUE, value |-> <<>>,
          what |->
            <<"g", "e", "o", ":", ":", "S", "i", "g", "n", "a", "l", "T",
              "y", "p", "e", "N", "a", "m", "e", "(", ")", ":", " ", "u",
              "n", "e", "x", "p", "e", "c", "t", "e", "d", " ", "s", "i",
              "g", "n", "a", "l", " ", "t", "y", "p", "e", " ", "#">>
            \o to_string(sigType)]

InitSignalType ==
  /\ a \in 0..MaxSigType
  /\ b = NoID
  /\ last = NoOp

\* try { name = geo::SignalTypeName(a); } catch (std::logic_error const&) {}
CallSignalTypeName ==
  /\ last.op = "none"
  /\ last' = [op |-> "SignalTypeName", type |-> "SigType_t", args |-> <<a>>,
              thrown |-> SignalTypeName(a).thrown,
              value |-> SignalTypeName(a).value,
              what |-> SignalTypeName(a).what]
  /\ UNCHANGED <<a, b>>

NextSignalType == CallSignalTypeName

SpecSignalType == InitSignalType /\ [][NextSignalType]_vars

(***************************************************************************)
(* C18: SignalTypeName returns "induction" for kInduction, "collection"    *)
(* for kCollection and "unknown" for kMysteryType, and for any other value *)
(* fails with a logic error whose message carries the numeric value        *)
(* instead of returning a name.                                            *)
(***************************************************************************)
C18_SignalTypeName ==
  last.op = "SignalTypeName" =>
    LET sigType == last.args[1]
    IN  /\ sigType = 0 =>
             /\ ~last.thrown
             /\ last.value
                  = <<"i", "n", "d", "u", "c", "t", "i", "o", "n">>
        /\ sigType = 1 =>
             /\ ~last.thrown
             /\ last.value
                  = <<"c", "o", "l", "l", "e", "c", "t", "i", "o", "n">>
        /\ sigType = 2 =>
             /\ ~last.thrown
             /\ last.value = <<"u", "n", "k", "n", "o", "w", "n">>
        /\ sigType \notin {0, 1, 2} =>
             /\ last.thrown
             /\ last.value = <<>>
             /\ Len(SplitAt(last.what, "#")) = 2
             /\ IsDecimal(SplitAt(last.what, "#")[2])
             /\ DecimalValue(SplitAt(last.what, "#")[2])
                  = <<0, sigType>>

\* The value 13: a logic error whose message ends in "#13".
C18_Witness ==
  /\ last.op = "SignalTypeName"
  /\ a = 13
  /\ last.thrown
  /\ SubSeq(last.what, Len(last.what) - 2, Len(last.what))
       = <<"#", "1", "3">>

(***************************************************************************)
(* geo::MiddlePointAccumulator (geo_vectors.h).  Coordinates are whole     *)
(* numbers, whose sums double holds exactly; a quotient of two doubles is  *)
(* the fraction <<numerator, denominator>> in lowest terms, <<0, 0>> being *)
(* NaN.  In SpecAccumulator `a` is the accumulator, `b` the points added   *)
(* to it since its construction or its last clear(), in order of addition, *)
(* and `last` the last statement (`cleared`: whether points were ever      *)
(* discarded from this accumulator by clear()).                            *)
(***************************************************************************)
MaxPoints == 3

\* The points given to the accumulator: geo::Point_t(x, y, z) as <<x, y, z>>.
Points == {<<1, 2, 3>>, <<2, 4, 6>>, <<3, 6, 9>>, <<0, -1, 2>>}

\* The sequences of at most n points.
RECURSIVE PointSequences(_)
PointSequences(n) ==
  IF n = 0
    THEN {<<>>}
    ELSE PointSequences(n - 1)
           \cup {Append(l, p) : l \in {q \in PointSequences(n - 1) :
                                         Len(q) = n - 1},
                                p \in Points}

\* The double x / w for whole x and w >= 0.
Divide(x, w) ==
  IF w = 0
    THEN <<IF x > 0 THEN 1 ELSE IF x < 0 THEN -1 ELSE 0, 0>>
    ELSE LET m == IF x < 0 THEN -x ELSE x
             g == CHOOSE d \in 1..w :
                    /\ m % d = 0 /\ w % d = 0
                    /\ \A e \in (d + 1)..w : ~(m % e = 0 /\ w % e = 0)
         IN  <<x \div g, w \div g>>

\* MiddlePointAccumulator(): fSums.fill(0.), fW = 0.0
MiddlePointAccumulator_default ==
  [type |-> "MiddlePointAccumulator", fSums |-> <<0, 0, 0>>, fW |-> 0]

\* bool empty() const
empty(acc) == acc.fW = 0

\* double weight() const
weight(acc) == acc.fW

\* Point middlePointAs<Point>() const
middlePointAs(acc) ==
  <<Divide(acc.fSums[1], acc.fW), Divide(acc.fSums[2], acc.fW),
    Divide(acc.fSums[3], acc.fW)>>

\* Point_t middlePoint() const
middlePoint(acc) == middlePointAs(acc)

\* An add(p) that does not count the point.
MiddlePointAccumulator_add_not_counted(acc, p) ==
  [acc EXCEPT !.fSums = <<acc.fSums[1] + p[1], acc.fSums[2] + p[2],
                          acc.fSums[3] + p[3]>>]

\* void add(Point const& p)
MiddlePointAccumulator_add(acc, p) ==
  [acc EXCEPT !.fSums = <<acc.fSums[1] + p[1], acc.fSums[2] + p[2],
                          acc.fSums[3] + p[3]>>,
              !.fW = acc.fW + 1]

\* void add(BeginIter begin, EndIter end): std::for_each with add(p)
RECURSIVE MiddlePointAccumulator_add_range(_, _)
MiddlePointAccumulator_add_range(acc, points) ==
  IF points = <<>>
    THEN acc
    ELSE MiddlePointAccumulator_add_range(
           MiddlePointAccumulator_add(acc, Head(points)), Tail(points))

\* MiddlePointAccumulator(BeginIter begin, EndIter end)
MiddlePointAccumulator_ctor_range(points) ==
  MiddlePointAccumulator_add_range(MiddlePointAccumulator_default, points)

\* A clear() that resets the weight only.
MiddlePointAccumulator_clear_weight_only(acc) == [acc EXCEPT !.fW = 0]

\* void clear(): fSums.fill(0.), fW = 0.0
MiddlePointAccumulator_clear(acc) ==
  [acc EXCEPT !.fSums = <<0, 0, 0>>, !.fW = 0]

InitAccumulator ==
  /\ a = NoID
  /\ b = <<>>
  /\ last = NoOp

\* geo::MiddlePointAccumulator a;
AccumulatorConstruct ==
  /\ a = NoID
  /\ a' = MiddlePointAccumulator_default
  /\ b' = <<>>
  /\ last' = [op |-> "default", type |-> "MiddlePointAccumulator",
              args |-> <<>>, cleared |-> FALSE]

\* geo::MiddlePointAccumulator a(points.begin(), points.end());
AccumulatorConstructRange(points) ==
  /\ a = NoID
  /\ a' = MiddlePointAccumulator_ctor_range(points)
  /\ b' = points
  /\ last' = [op |-> "range", type |-> "MiddlePointAccumulator",
              args |-> <<points>>, cleared |-> FALSE]

\* a.add(p);
AccumulatorAdd(p) ==
  /\ a # NoID
  /\ Len(b) + 1 <= MaxPoints
  /\ a' = MiddlePointAccumulator_add(a, p)
  /\ b' = Append(b, p)
  /\ last' = [op |-> "add", type |-> "MiddlePointAccumulator",
              args |-> <<p>>, cleared |-> last.cleared]

\* a.add(points.begin(), points.end());
AccumulatorAddRange(points) ==
  /\ a # NoID
  /\ Len(b) + Len(points) <= MaxPoints
  /\ a' = MiddlePointAccumulator_add_range(a, points)
  /\ b' = b \o points
  /\ last' = [op |-> "add_range", type |-> "MiddlePointAccumulator",
              args |-> <<points>>, cleared |-> last.cleared]

\* a.clear();
AccumulatorClear ==
  /\ a # NoID
  /\ a' = MiddlePointAccumulator_clear(a)
  /\ b' = <<>>
  /\ last' = [op |-> "clear", type |-> "MiddlePointAccumulator",
              args |-> <<>>, cleared |-> (last.cleared \/ b # <<>>)]

\* `a` goes out of scope
AccumulatorDestroy ==
  /\ a # NoID
  /\ a' = NoID
  /\ b' = <<>>
  /\ last' = NoOp

NextAccumulator ==
  \/ AccumulatorConstruct
  \/ \E points \in PointSequences(MaxPoints) :
       AccumulatorConstructRange(points)
  \/ \E p \in Points : AccumulatorAdd(p)
  \/ \E points \in PointSequences(MaxPoints) : AccumulatorAddRange(points)
  \/ AccumulatorClear
  \/ AccumulatorDestroy

SpecAccumulator == InitAccumulator /\ [][NextAccumulator]_vars

(***************************************************************************)
(* C19: after n >= 1 points have been added with unit weight since         *)
(* construction or the last clear(), each coordinate of middlePoint() is   *)
(* the sum of that coordinate over the added points divided by n, whatever *)
(* the order of the additions and whether they were made one at a time, as *)
(* a sequence or through the sequence constructor; (1,2,3), (2,4,6),       *)
(* (3,6,9) give (2,4,6).                                                   *)
(***************************************************************************)
\* The sum of coordinate i over the points of the sequence l.
RECURSIVE SumOfCoordinate(_, _)
SumOfCoordinate(l, i) ==
  IF l = <<>> THEN 0 ELSE Head(l)[i] + SumOfCoordinate(Tail(l), i)

\* The fraction q is the quotient of the whole numbers x and n > 0.
IsQuotient(q, x, n) == q[2] > 0 /\ q[1] * n = x * q[2]

C19_MiddlePointIsMean ==
  /\ (a # NoID /\ Len(b) >= 1) =>
       \A i \in 1..3 :
         IsQuotient(middlePoint(a)[i], SumOfCoordinate(b, i), Len(b))
  /\ \A l \in {<<<<1, 2, 3>>, <<2, 4, 6>>, <<3, 6, 9>>>>,
               <<<<3, 6, 9>>, <<1, 2, 3>>, <<2, 4, 6>>>>,
               <<<<2, 4, 6>>, <<3, 6, 9>>, <<1, 2, 3>>>>} :
       /\ middlePoint(MiddlePointAccumulator_ctor_range(l))
            = <<<<2, 1>>, <<4, 1>>, <<6, 1>>>>
       /\ middlePoint(MiddlePointAccumulator_add(
            MiddlePointAccumulator_add(
              MiddlePointAccumulator_add(
                MiddlePointAccumulator_default, l[1]), l[2]), l[3]))
            = <<<<2, 1>>, <<4, 1>>, <<6, 1>>>>

\* (3,6,9) added alone, then (0,-1,2) and (1,2,3) as a sequence: the middle
\* point is (4/3, 7/3, 14/3).
C19_Witness ==
  /\ a # NoID
  /\ last.op = "add_range"
  /\ b = <<<<3, 6, 9>>, <<0, -1, 2>>, <<1, 2, 3>>>>
  /\ middlePoint(a) = <<<<4, 3>>, <<7, 3>>, <<14, 3>>>>

(***************************************************************************)
(* C20: in every state reached by unit-weight add and clear operations,    *)
(* weight() is the number of points added since construction or the last   *)
(* clear() and empty() is true exactly when that number is 0; a freshly    *)
(* constructed accumulator and one just cleared are empty with weight 0    *)
(* and all coordinate sums 0, so that what was accumulated before clear()  *)
(* has no effect on later results.                                         *)
(***************************************************************************)
C20_WeightCountsPoints ==
  a # NoID =>
    /\ weight(a) = Len(b)
    /\ empty(a) <=> (Len(b) = 0)
    /\ last.op \in {"default", "clear"} =>
         /\ empty(a)
         /\ weight(a) = 0
         /\ a.fSums = <<0, 0, 0>>
    /\ \A i \in 1..3 : a.fSums[i] = SumOfCoordinate(b, i)
    /\ middlePoint(a) = middlePoint(MiddlePointAccumulator_ctor_range(b))

\* An accumulator that held points, was cleared and was given (2,4,6).
C20_Witness ==
  /\ a # NoID
  /\ last.op = "add"
  /\ last.cleared
  /\ b = <<<<2, 4, 6>>>>
  /\ weight(a) = 1
  /\ middlePoint(a) = <<<<2, 1>>, <<4, 1>>, <<6, 1>>>>


(***************************************************************************)
(* geo_types_fhicl.h and readout_types_fhicl.h: identifiers read from a    *)
(* validated configuration.  A table is a record with one field per        *)
(* parameter name; the value of a field is <<>> when the key is omitted    *)
(* and <<v>> when it is configured as v.  `a` is the configured parameter, *)
(* `b` the default value held by the caller, `last` the latest read.       *)
(***************************************************************************)

MaxIDs == 2

\* fhicl::Name of the index parameter added by IDConfig<T>
AtomName(T) ==
  CASE T = "CryostatID" -> "C"
    [] T = "OpDetID"    -> "O"
    [] T = "TPCID"      -> "T"
    [] T = "PlaneID"    -> "P"
    [] T = "WireID"     -> "W"
    [] T = "TPCsetID"   -> "S"
    [] T = "ROPID"      -> "R"

ValidIDConfig_valid_default_false(cfg) == cfg.isValid = <<TRUE>>

\* ValidIDConfig::valid(): isValid is an atom with default value true
ValidIDConfig_valid(cfg) ==
  IF cfg.isValid = <<>> THEN TRUE ELSE cfg.isValid[1]

\* IDConfig<geo::CryostatID>::ID()
IDConfig_CryostatID_ID(cfg) ==
  IF ~ValidIDConfig_valid(cfg)
    THEN CryostatID_default
    ELSE CryostatID_ctor(cfg.C[1])

\* IDConfig<geo::OpDetID>::ID()
IDConfig_OpDetID_ID(cfg) ==
  IF ~ValidIDConfig_valid(cfg)
    THEN OpDetID_default
    ELSE OpDetID_nested(IDConfig_CryostatID_ID(cfg), cfg.O[1])

\* IDConfig<geo::TPCID>::ID()
IDConfig_TPCID_ID(cfg) ==
  IF ~ValidIDConfig_valid(cfg)
    THEN TPCID_default
    ELSE TPCID_nested(IDConfig_CryostatID_ID(cfg), cfg.T[1])

\* IDConfig<geo::PlaneID>::ID()
IDConfig_PlaneID_ID(cfg) ==
  IF ~ValidIDConfig_valid(cfg)
    THEN PlaneID_default
    ELSE PlaneID_nested(IDConfig_TPCID_ID(cfg), cfg.P[1])

\* IDConfig<geo::WireID>::ID()
IDConfig_WireID_ID(cfg) ==
  IF ~ValidIDConfig_valid(cfg)
    THEN WireID_default
    ELSE WireID_nested(IDConfig_PlaneID_ID(cfg), cfg.W[1])

\* IDConfig<readout::TPCsetID>::ID()
IDConfig_TPCsetID_ID(cfg) ==
  IF ~ValidIDConfig_valid(cfg)
    THEN TPCsetID_default
    ELSE TPCsetID_nested(IDConfig_CryostatID_ID(cfg), cfg.S[1])

\* IDConfig<readout::ROPID>::ID()
IDConfig_ROPID_ID(cfg) ==
  IF ~ValidIDConfig_valid(cfg)
    THEN ROPID_default
    ELSE ROPID_nested(IDConfig_TPCsetID_ID(cfg), cfg.R[1])

\* IDConfig<T>::operator ID_t() of the specialisation for T
IDConfig_ID(T, cfg) ==
  CASE T = "CryostatID" -> IDConfig_CryostatID_ID(cfg)
    [] T = "OpDetID"    -> IDConfig_OpDetID_ID(cfg)
    [] T = "TPCID"      -> IDConfig_TPCID_ID(cfg)
    [] T = "PlaneID"    -> IDConfig_PlaneID_ID(cfg)
    [] T = "WireID"     -> IDConfig_WireID_ID(cfg)
    [] T = "TPCsetID"   -> IDConfig_TPCsetID_ID(cfg)
    [] T = "ROPID"      -> IDConfig_ROPID_ID(cfg)

\* readID(IDparameter<SrcID> const& atom): return atom();
readID(atom) == IDConfig_ID(atom.type, atom.value)

readOptionalID_default_when_omitted(atom) ==
  IF atom.value # <<>>
    THEN <<IDConfig_ID(atom.type, atom.value[1])>>
    ELSE <<DefaultConstructed(atom.type)>>

\* readOptionalID(OptionalID<SrcID> const& atom):
\*   atom(cs)? std::make_optional<ID_t>(cs.ID()): std::nullopt
readOptionalID(atom) ==
  IF atom.value # <<>>
    THEN <<IDConfig_ID(atom.type, atom.value[1])>>
    ELSE <<>>

\* readOptionalID(OptionalID<SrcID> const& atom, ID const& defValue):
\*   readOptionalID(atom).value_or(defValue)
readOptionalID_value_or(atom, defValue) ==
  IF readOptionalID(atom) # <<>> THEN readOptionalID(atom)[1] ELSE defValue

readIDsequence_last_dropped(seq) ==
  [i \in 1..(Len(seq.value) - 1) |-> IDConfig_ID(seq.type, seq.value[i])]

\* readIDsequence(IDsequence<SrcID> const& seq):
\*   for (i = 0; i < n; ++i) IDs.push_back(seq(i));
readIDsequence(seq) ==
  [i \in 1..Len(seq.value) |-> IDConfig_ID(seq.type, seq.value[i])]

\* readOptionalIDsequence(OptionalIDsequence<SrcID> const& seq):
\*   if (!seq(values)) return std::nullopt; copy of values otherwise
readOptionalIDsequence(seq) ==
  IF seq.value = <<>>
    THEN <<>>
    ELSE <<[i \in 1..Len(seq.value[1]) |->
              IDConfig_ID(seq.type, seq.value[1][i])]>>

\* readOptionalIDsequence(seq, std::vector<ID> const& defValue):
\*   paramValue.value_or(defValue)
readOptionalIDsequence_value_or(seq, defValue) ==
  IF readOptionalIDsequence(seq) # <<>>
    THEN readOptionalIDsequence(seq)[1]
    ELSE defValue

\* The index parameters of a table for T: every one configured when the
\* table is valid (they are required then), any of them when it is not.
RECURSIVE AtomTables(_, _)
AtomTables(T, valid) ==
  LET own == {AtomName(T) :> v :
                v \in {<<i>> : i \in IndexValues(T)}
                        \cup (IF valid THEN {} ELSE {<<>>})}
  IN  IF ParentID_t(T) = "void"
        THEN own
        ELSE {p @@ o : p \in AtomTables(ParentID_t(T), valid), o \in own}

\* The validated tables for an identifier of type T.
Tables(T) ==
  UNION {{("isValid" :> v) @@ t : t \in AtomTables(T, v # <<FALSE>>)} :
           v \in {<<>>, <<TRUE>>, <<FALSE>>}}

\* The tables used as elements of sequences: the valid ones with isValid
\* omitted and each index lowest or highest, and the empty invalid one.
SequenceTables(T) ==
  {cfg \in Tables(T) :
     \/ /\ cfg.isValid = <<>>
        /\ \A T2 \in Types : IsA(T, T2) =>
             cfg[AtomName(T2)] \in {<<UInt(0)>>, <<UInt(MaxIndex)>>}
     \/ /\ cfg.isValid = <<FALSE>>
        /\ \A T2 \in Types : IsA(T, T2) => cfg[AtomName(T2)] = <<>>}

RECURSIVE TableSequences(_, _)
TableSequences(T, n) ==
  IF n = 0
    THEN {<<>>}
    ELSE TableSequences(T, n - 1)
           \cup {Append(l, cfg) : l \in {l2 \in TableSequences(T, n - 1) :
                                           Len(l2) = n - 1},
                                  cfg \in SequenceTables(T)}

\* The parameters of one kind (IDparameter, OptionalID, IDsequence,
\* OptionalIDsequence) with their configured content.
ParameterKinds ==
  {"IDparameter", "OptionalID", "IDsequence", "OptionalIDsequence"}

Parameters(T, kind) ==
  {[kind |-> kind, type |-> T, value |-> v] :
     v \in CASE kind = "IDparameter"        -> Tables(T)
             [] kind = "OptionalID"         ->
                  {<<>>} \cup {<<cfg>> : cfg \in Tables(T)}
             [] kind = "IDsequence"         -> TableSequences(T, MaxIDs)
             [] kind = "OptionalIDsequence" ->
                  {<<>>} \cup {<<l>> : l \in TableSequences(T, MaxIDs)}}

\* The default values a caller passes for a parameter.
DefaultValues(param) ==
  LET ids == {DefaultConstructed(param.type),
              DirectConstructed(param.type,
                [k \in 1..Len(TypeChain(param.type)) |-> UInt(MaxIndex)])}
  IN  CASE param.kind = "OptionalID" -> ids
        [] param.kind = "OptionalIDsequence" ->
             {<<>>} \cup {<<d>> : d \in ids}
        [] OTHER -> {}

\* A validated configuration holds the parameter.
Configure(T, kind) ==
  /\ a = NoID
  /\ \E param \in Parameters(T, kind) :
       /\ a' = param
       /\ last' = [op |-> "configure", type |-> T, args |-> <<param.kind>>]
  /\ UNCHANGED b

\* The caller prepares a default value for an optional parameter.
MakeDefault ==
  /\ a # NoID
  /\ b = NoID
  /\ \E defValue \in DefaultValues(a) :
       /\ b' = [type |-> "defValue", value |-> defValue]
       /\ last' = [op |-> "default", type |-> a.type, args |-> <<>>]
  /\ UNCHANGED a

\* readParameter(param): forwards to the read function of the parameter kind
ReadParameter ==
  /\ a # NoID
  /\ last' = [op |-> "readParameter", type |-> a.type, args |-> <<a>>,
              result |->
                CASE a.kind = "IDparameter"        -> readID(a)
                  [] a.kind = "OptionalID"         -> readOptionalID(a)
                  [] a.kind = "IDsequence"         -> readIDsequence(a)
                  [] a.kind = "OptionalIDsequence" ->
                       readOptionalIDsequence(a)]
  /\ UNCHANGED <<a, b>>

\* readParameter(param, defValue) with defValue taken by const reference
ReadParameterDefault ==
  /\ a # NoID
  /\ b # NoID
  /\ last' = [op |-> "readParameterDefault", type |-> a.type,
              args |-> <<a, b.value>>,
              result |->
                CASE a.kind = "OptionalID" ->
                       readOptionalID_value_or(a, b.value)
                  [] a.kind = "OptionalIDsequence" ->
                       readOptionalIDsequence_value_or(a, b.value)]
  /\ UNCHANGED <<a, b>>

NextConfig ==
  \/ \E T \in Types, kind \in ParameterKinds : Configure(T, kind)
  \/ MakeDefault
  \/ ReadParameter
  \/ ReadParameterDefault

SpecConfig == Init /\ [][NextConfig]_vars

\* The identifier a table of type T stands for: the indices it configures
\* when isValid is true or omitted, the default-constructed one otherwise.
ConfiguredID(T, cfg) ==
  IF cfg.isValid \in {<<>>, <<TRUE>>}
    THEN DirectConstructed(T,
           [k \in 1..Len(TypeChain(T)) |-> cfg[AtomName(TypeChain(T)[k])][1]])
    ELSE DefaultConstructed(T)

\* C21: a table yields, through ID() and readID, a valid identifier holding
\* the configured index at every level when isValid is true or omitted
\* ({ C:2 T:3 P:1 W:9 } gives WireID{2,3,1,9}), and the default-constructed
\* invalid identifier of its type, whatever indices are present, when
\* isValid is false; for all seven identifier types.
C21_TableYieldsConfiguredID ==
  /\ IDConfig_WireID_ID([isValid |-> <<>>, C |-> <<UInt(2)>>,
                         T |-> <<UInt(3)>>, P |-> <<UInt(1)>>,
                         W |-> <<UInt(9)>>])
       = WireID_ctor(UInt(2), UInt(3), UInt(1), UInt(9))
  /\ (last.op = "readParameter" /\ a.kind = "IDparameter") =>
       LET cfg == a.value
           id  == last.result
           chain == TypeChain(a.type)
       IN  /\ id = IDConfig_ID(a.type, cfg)
           /\ id.type = a.type
           /\ IF cfg.isValid = <<FALSE>>
                THEN /\ id = DefaultConstructed(a.type)
                     /\ ~id.isValid
                ELSE /\ id.isValid
                     /\ \A k \in 1..Len(chain) :
                          id[IndexField(chain[k])] = cfg[AtomName(chain[k])][1]

C21_Witness ==
  /\ last.op = "readParameter"
  /\ a.kind = "IDparameter"
  /\ a.type = "WireID"
  /\ a.value.isValid = <<FALSE>>
  /\ a.value.W = <<UInt(MaxIndex)>>
  /\ a.value.C = <<UInt(0)>>
  /\ last.result = WireID_default

\* C22: reading an optional ID parameter returns no value exactly when the
\* parameter was omitted and the configured identifier otherwise; reading
\* it with a default returns the configured identifier when present and
\* the default when omitted, and leaves the caller's default unchanged.
C22_OptionalIDRead ==
  /\ [](/\ (last.op = "readParameter" /\ a.kind = "OptionalID") =>
             /\ last.result = <<>> <=> a.value = <<>>
             /\ a.value # <<>> =>
                  last.result = <<ConfiguredID(a.type, a.value[1])>>
        /\ (last.op = "readParameterDefault" /\ a.kind = "OptionalID") =>
             /\ a.value # <<>> =>
                  last.result = ConfiguredID(a.type, a.value[1])
             /\ a.value = <<>> => last.result = b.value
             /\ last.args[2] = b.value)
  /\ [][last'.op = "readParameterDefault" => (b' = b /\ a' = a)]_vars

C22_Witness ==
  /\ last.op = "readParameterDefault"
  /\ a.kind = "OptionalID"
  /\ a.type = "ROPID"
  /\ a.value # <<>>
  /\ b.value.isValid
  /\ last.result = ConfiguredID(a.type, a.value[1])
  /\ last.result # b.value

\* C23: reading an ID sequence returns as many identifiers as configured,
\* the i-th being the one configured at position i; an optional sequence
\* gives no value when omitted and a value holding the vector when present,
\* an empty vector for []; with a default, the default is returned only
\* when the parameter is omitted.
C23_IDSequenceRead ==
  LET vector(l) == [i \in 1..Len(l) |-> ConfiguredID(a.type, l[i])]
  IN  /\ (last.op = "readParameter" /\ a.kind = "IDsequence") =>
           /\ Len(last.result) = Len(a.value)
           /\ \A i \in 1..Len(a.value) :
                last.result[i] = ConfiguredID(a.type, a.value[i])
      /\ (last.op = "readParameter" /\ a.kind = "OptionalIDsequence") =>
           /\ a.value = <<>> => last.result = <<>>
           /\ a.value = <<(<<>>)>> => last.result = <<(<<>>)>>
           /\ a.value # <<>> => last.result = <<vector(a.value[1])>>
      /\ (last.op = "readParameterDefault" /\ a.kind = "OptionalIDsequence") =>
           /\ a.value = <<>> => last.result = b.value
           /\ a.value # <<>> => last.result = vector(a.value[1])

C23_Witness ==
  /\ last.op = "readParameterDefault"
  /\ a.kind = "OptionalIDsequence"
  /\ a.value = <<(<<>>)>>
  /\ Len(b.value) = 1
  /\ last.result = <<>>

(***************************************************************************)
(* sumdata::GeometryConfigurationInfo (GeometryConfigurationInfo.h, .cxx). *)
(* `a` is the record, `b` the stream it was last printed to.               *)
(***************************************************************************)

MaxDataVersion == 3

\* static constexpr DataVersion_t InvalidDataVersion = 0U
InvalidDataVersion == 0

\* The FHiCL configurations stored in the record.
GeometryConfigurations == {<<>>, <<"g", ":", "1">>}

\* The member initialisers: dataVersion = InvalidDataVersion, empty strings
GeometryConfigurationInfo_default ==
  [type |-> "GeometryConfigurationInfo",
   dataVersion |-> InvalidDataVersion,
   geometryServiceConfiguration |-> <<>>,
   detectorName |-> <<>>]

isDataValid_from_version_two(info) == info.dataVersion >= 2

\* bool isDataValid() const noexcept
isDataValid(info) == info.dataVersion # InvalidDataVersion

\* "Invalid geometry configuration information"
InvalidInformationMessage ==
  <<"I", "n", "v", "a", "l", "i", "d", " ", "g", "e", "o", "m", "e", "t",
    "r", "y", " ", "c", "o", "n", "f", "i", "g", "u", "r", "a", "t", "i",
    "o", "n", " ", "i", "n", "f", "o", "r", "m", "a", "t", "i", "o", "n">>

\* std::string(80, '-')
DashLine == [i \in 1..80 |-> "-"]

\* std::ostream& operator<< (std::ostream&, GeometryConfigurationInfo const&)
GeometryConfigurationInfo_out(out, info) ==
  IF ~isDataValid(info)
    THEN out \o InvalidInformationMessage \o <<"\n">>
    ELSE
      out
      \o
      <<"G", "e", "o", "m", "e", "t", "r", "y", " ", "i", "n", "f", "o",
        "r", "m", "a", "t", "i", "o", "n", " ", "v", "e", "r", "s", "i",
        "o", "n", ":", " ">>
      \o UIntToChars(UInt(info.dataVersion))
      \o (IF info.dataVersion >= 1
            THEN
              <<"\n", "D", "e", "t", "e", "c", "t", "o", "r", " ", "n",
                "a", "m", "e", ":", " ", " ", " ", " ", " ", " ", " ", " ",
                " ", " ", " ", " ", " ", " ", " ", "'">>
              \o info.detectorName \o <<"'">>
            ELSE <<>>)
      \o (IF info.dataVersion >= 2
            THEN
              <<"\n", "F", "u", "l", "l", " ", "c", "o", "n", "f", "i",
                "g", "u", "r", "a", "t", "i", "o", "n", ":">>
              \o <<"\n">> \o DashLine
              \o <<"\n">> \o info.geometryServiceConfiguration
              \o <<"\n">> \o DashLine
            ELSE <<>>)
      \o (IF info.dataVersion > 2
            THEN
              <<"\n", "[", "t", "h", "i", "s", " ", "v", "e", "r", "s",
                "i", "o", "n", " ", "o", "f", " ", "c", "o", "d", "e", " ",
                "c", "a", "n", "'", "t", " ", "f", "u", "l", "l", "y", " ",
                "d", "e", "c", "o", "d", "e", " ", "f", "u", "r", "t", "h",
                "e", "r", " ", "i", "n", "f", "o", "r", "m", "a", "t", "i",
                "o", "n", "]">>
            ELSE <<>>)

\* sumdata::GeometryConfigurationInfo a;
GeometryInfoConstruct ==
  /\ a = NoID
  /\ a' = GeometryConfigurationInfo_default
  /\ last' = [op |-> "default", type |-> "GeometryConfigurationInfo",
              args |-> <<>>]
  /\ UNCHANGED b

\* a.dataVersion = v;  a.detectorName = v;
\* a.geometryServiceConfiguration = v;
GeometryInfoAssign(field) ==
  /\ a # NoID
  /\ \E v \in CASE field = "dataVersion" -> 0..MaxDataVersion
                [] field = "detectorName" -> {<<>>} \cup DetectorNames
                [] field = "geometryServiceConfiguration" ->
                     GeometryConfigurations :
       /\ a' = [a EXCEPT ![field] = v]
       /\ last' = [op |-> "assign", type |-> "GeometryConfigurationInfo",
                   args |-> <<field, v>>]
  /\ UNCHANGED b

\* std::ostringstream b;  b << a;
GeometryInfoPrint ==
  /\ a # NoID
  /\ b' = [type |-> "ostream",
           text |-> GeometryConfigurationInfo_out(<<>>, a)]
  /\ last' = [op |-> "print", type |-> "GeometryConfigurationInfo",
              args |-> <<a>>]
  /\ UNCHANGED a

\* `a` goes out of scope
GeometryInfoDestroy ==
  /\ a # NoID
  /\ a' = NoID
  /\ last' = [op |-> "destroy", type |-> "GeometryConfigurationInfo",
              args |-> <<>>]
  /\ UNCHANGED b

NextGeometryInfo ==
  \/ GeometryInfoConstruct
  \/ \E field \in {"dataVersion", "detectorName",
                   "geometryServiceConfiguration"} : GeometryInfoAssign(field)
  \/ GeometryInfoPrint
  \/ GeometryInfoDestroy

SpecGeometryInfo == Init /\ [][NextGeometryInfo]_vars

\* C24: isDataValid() is true exactly when dataVersion is not 0; the
\* default-constructed record has dataVersion 0 and is not valid; printing a
\* record that is not valid writes the invalid-information message, a line
\* end and nothing else, so none of its fields, while a valid record is
\* printed with its version.
C24_InvalidRecord ==
  /\ a # NoID => (isDataValid(a) <=> a.dataVersion # 0)
  /\ last.op = "default" => (a.dataVersion = 0 /\ ~isDataValid(a))
  /\ last.op = "print" =>
       IF a.dataVersion = 0
         THEN /\ b.text = InvalidInformationMessage \o <<"\n">>
              /\ ~Contains(b.text, UIntToChars(UInt(a.dataVersion)))
              /\ a.detectorName # <<>> => ~Contains(b.text, a.detectorName)
              /\ a.geometryServiceConfiguration # <<>> =>
                   ~Contains(b.text, a.geometryServiceConfiguration)
         ELSE /\ ~Contains(b.text, InvalidInformationMessage)
              /\ Contains(b.text, UIntToChars(UInt(a.dataVersion)))

C24_Witness ==
  /\ last.op = "print"
  /\ a.dataVersion = 0
  /\ a.detectorName \in DetectorNames
  /\ a.geometryServiceConfiguration # <<>>
  /\ b.text = InvalidInformationMessage \o <<"\n">>

(***************************************************************************)
(* geo::WireIDIntersection (geo_types.h).  `a` and `b` are the two         *)
(* intersections compared; coordinates are whole numbers.                  *)
(***************************************************************************)

MaxCoordinate == 2

\* struct WireIDIntersection { double y; double z; unsigned int TPC; }
WireIDIntersections ==
  {[type |-> "WireIDIntersection", y |-> y, z |-> z, TPC |-> t] :
     y \in (-MaxCoordinate)..MaxCoordinate, z \in {0, MaxCoordinate},
     t \in 0..MaxIndex}

\* std::abs(double)
std_abs(x) == IF x < 0 THEN -x ELSE x

WireIDIntersection_lt_signed(this, otherIntersect) ==
  this.y > otherIntersect.y

\* bool operator<( const WireIDIntersection& otherIntersect ) const
WireIDIntersection_lt(this, otherIntersect) ==
  std_abs(this.y) > std_abs(otherIntersect.y)

InitIntersection ==
  /\ a \in WireIDIntersections
  /\ b \in WireIDIntersections
  /\ last = NoOp

\* a < b, b < a and a < a
IntersectionCompare ==
  /\ last.op = "none"
  /\ last' = [op |-> "compare", type |-> "WireIDIntersection",
              args |-> <<a, b>>,
              lt   |-> WireIDIntersection_lt(a, b),
              rlt  |-> WireIDIntersection_lt(b, a),
              self |-> WireIDIntersection_lt(a, a)]
  /\ UNCHANGED <<a, b>>

NextIntersection == IntersectionCompare

SpecIntersection == InitIntersection /\ [][NextIntersection]_vars

\* C25: a < b holds exactly when |a.y| > |b.y|; z and TPC take no part, so
\* intersections with equal |y| (y and -y in particular) are ordered in
\* neither direction; the relation is irreflexive and transitive.
C25_IntersectionOrder ==
  last.op = "compare" =>
    /\ last.lt <=> a.y * a.y > b.y * b.y
    /\ last.rlt <=> b.y * b.y > a.y * a.y
    /\ (a.y = b.y \/ a.y = -b.y) => (~last.lt /\ ~last.rlt)
    /\ ~last.self
    /\ \A c \in WireIDIntersections :
         /\ (last.lt /\ WireIDIntersection_lt(b, c)) =>
              WireIDIntersection_lt(a, c)
         /\ (c.y = a.y) => (WireIDIntersection_lt(c, b) <=> last.lt)
         /\ (c.y = b.y) => (WireIDIntersection_lt(a, c) <=> last.lt)

C25_Witness ==
  /\ last.op = "compare"
  /\ a.y = -b.y
  /\ a.y > 0
  /\ a.z # b.z
  /\ a.TPC # b.TPC
  /\ ~last.lt
  /\ ~last.rlt
\* The third identifiers of the transitivity check: each index is the
\* lowest, the highest ordinary one or the sentinel.
RECURSIVE ThirdObjects(_)
ThirdObjects(T) ==
  LET own == {UInt(0), UInt(MaxIndex), InvalidID(T)}
  IN  IF ParentID_t(T) = "void"
        THEN {CryostatID_ctor(c) : c \in own}
        ELSE {NestedConstructed(T, p, i) :
                p \in ThirdObjects(ParentID_t(T)), i \in own}

\* C26: for every identifier type operator< is a strict total order over
\* the index tuples: it is irreflexive and transitive and exactly one of
\* a < b, a == b, b < a holds; a.cmp(b) is -1, 0 or +1 and equals
\* -b.cmp(a); a != b is the negation of a == b.
C26_StrictTotalOrder ==
  last.op = "compare" =>
    /\ ~operator_lt(a, a)
    /\ ~operator_lt(b, b)
    /\ \/ last.lt /\ ~last.eq /\ ~last.rlt
       \/ ~last.lt /\ last.eq /\ ~last.rlt
       \/ ~last.lt /\ ~last.eq /\ last.rlt
    /\ last.cmp \in {-1, 0, 1}
    /\ last.cmp = -last.rcmp
    /\ last.ne <=> ~last.eq
    /\ last.lt =>
         \A c \in ThirdObjects(a.type) :
           operator_lt(b, c) => operator_lt(a, c)

\* Two ROPs of different TPC sets, the second before the first.
C26_Witness ==
  /\ last.op = "compare"
  /\ a.type = "ROPID"
  /\ ULess(b.TPCset, a.TPCset)
  /\ ULess(a.ROP, b.ROP)
  /\ last.rlt
  /\ ~last.lt
  /\ ~last.eq
  /\ last.ne
  /\ last.cmp = 1
  /\ last.rcmp = -1

\* C27: an identifier built from a parent identifier and an index takes the
\* parent's isValid and the parent's indices unchanged and stores its own
\* index: from an invalid parent (a default-constructed one for example) it
\* is invalid although its index is set, from a valid parent it is valid;
\* the validity of an identifier is the validity of its cryostat part.
C27_NestedTakesParentValidity ==
  /\ a # NoID => (a.isValid <=> asCryostatID(a).isValid)
  /\ last.op = "nested" =>
       LET parent == last.args[1]
           chain  == TypeChain(ParentID_t(last.type))
       IN  /\ a.type = last.type
           /\ a.isValid <=> parent.isValid
           /\ \A k \in 1..Len(chain) :
                a[IndexField(chain[k])] = parent[IndexField(chain[k])]
           /\ a[IndexField(a.type)] = last.args[2]
           /\ parent = DefaultConstructed(parent.type) => ~a.isValid

C27_Witness ==
  /\ last.op = "nested"
  /\ last.type = "PlaneID"
  /\ last.args[1] = TPCID_default
  /\ last.args[2] = UInt(MaxIndex)
  /\ a.Plane = UInt(MaxIndex)
  /\ ~a.isValid

(***************************************************************************)
(* Validity changes of `a` while it is compared with another identifier    *)
(* `b` of the same type: a comparison, then any sequence of setValidity(), *)
(* markValid() and markInvalid() calls on `a`, each followed by the same   *)
(* comparisons.                                                            *)
(***************************************************************************)
\* `a` is any identifier; `b` is a default-constructed one or one whose
\* indices are each the lowest, the highest ordinary one or the sentinel.
InitValidityPair ==
  /\ \E T \in Types :
       /\ a \in Objects(T)
       /\ b \in ThirdObjects(T) \cup {DefaultConstructed(T)}
  /\ last = NoOp

\* a.setValidity(valid);  a.markValid();  a.markInvalid();
\* then a.cmp(b), b.cmp(a), a == b, a != b, a < b, b < a again
PairChangeValidity(call, valid) ==
  /\ last.op # "none"
  /\ call \in {"markValid", "markInvalid"} => valid = (call = "markValid")
  /\ a' = CASE call = "setValidity" -> CryostatID_setValidity(a, valid)
            [] call = "markValid"   -> CryostatID_markValid(a)
            [] call = "markInvalid" -> CryostatID_markInvalid(a)
  /\ last' = [op |-> call, type |-> a.type, args |-> <<valid>>,
              cmp |-> cmp(a', b), rcmp |-> cmp(b, a'),
              eq |-> operator_eq(a', b), ne |-> operator_ne(a', b),
              lt |-> operator_lt(a', b), rlt |-> operator_lt(b, a'),
              self |-> cmp(a', a')]
  /\ UNCHANGED b

NextValidityPair ==
  \/ Compare
  \/ \E call \in {"setValidity", "markValid", "markInvalid"},
        valid \in BOOLEAN : PairChangeValidity(call, valid)

SpecValidityPair == InitValidityPair /\ [][NextValidityPair]_vars

\* C28: setValidity, markValid and markInvalid change only isValid: the call
\* leaves every index of the identifier, at every level, as it was, and with
\* them the results of ==, !=, < and cmp against any other identifier (in
\* both directions) and the string rendering.
C28_ValidityChangesOnlyFlag ==
  [][last'.op \in {"setValidity", "markValid", "markInvalid"} =>
       /\ a'.type = a.type
       /\ IndexTuple(a') = IndexTuple(a)
       /\ a'.isValid <=> last'.args[1]
       /\ last'.cmp = last.cmp
       /\ last'.rcmp = last.rcmp
       /\ last'.eq <=> last.eq
       /\ last'.ne <=> last.ne
       /\ last'.lt <=> last.lt
       /\ last'.rlt <=> last.rlt
       /\ toString(a') = toString(a)
       /\ b' = b]_vars

\* A wire made invalid still equals the valid wire with the same indices.
C28_Witness ==
  /\ last.op = "markInvalid"
  /\ a.type = "WireID"
  /\ ~a.isValid
  /\ b.isValid
  /\ IndexTuple(a) = IndexTuple(b)
  /\ last.eq
  /\ last.cmp = 0

(***************************************************************************)
(* Width of the indices: identifiers constructed from values beyond 16     *)
(* bits, and the neighbours T(parent, index - 1), T(parent, index + 1) the *)
(* tests construct.  `a` is the identifier, `b` its neighbour.             *)
(***************************************************************************)
\* x + 1 and x - 1 in unsigned int arithmetic (modulo 2^32)
UIncrement(x) ==
  IF x[2] = 65535 THEN <<(x[1] + 1) % 65536, 0>> ELSE <<x[1], x[2] + 1>>

UDecrement(x) ==
  IF x[2] = 0 THEN <<(x[1] - 1) % 65536, 65535>> ELSE <<x[1], x[2] - 1>>

\* The constructor arguments: ordinary indices, the same plus 2^16, and the
\* maximum values of 16 and 32 bits.
WideValues ==
  {UInt(n) : n \in 0..MaxIndex} \cup {UInt(65536 + n) : n \in 0..MaxIndex}
    \cup {USHRT_MAX, UINT_MAX}

RECURSIVE WideIndexLists(_)
WideIndexLists(T) ==
  IF ParentID_t(T) = "void"
    THEN {<<c>> : c \in WideValues}
    ELSE {Append(l, i) : l \in WideIndexLists(ParentID_t(T)), i \in WideValues}

\* T smaller(parent, id.index - 1)  (d = -1),
\* T larger(parent, id.index + 1)   (d = +1)
Neighbour(id, d) ==
  NestedConstructed(id.type, parentID(id),
    IF d = 1 THEN UIncrement(deepestIndex(id))
             ELSE UDecrement(deepestIndex(id)))

\* T b(parent, a.index - 1);  or  T b(parent, a.index + 1);
NeighbourConstruct(d) ==
  /\ a # NoID
  /\ ParentID_t(a.type) # "void"
  /\ b = NoID
  /\ b' = Neighbour(a, d)
  /\ last' = [op |-> "neighbour", type |-> a.type, args |-> <<d>>]
  /\ UNCHANGED a

NextWidth ==
  \/ \E T \in Types : \E l \in WideIndexLists(T) : DirectConstruct(T, l)
  \/ \E d \in {-1, 1} : NeighbourConstruct(d)

SpecWidth == Init /\ [][NextWidth]_vars

\* C29: the TPC set index is 16 bits wide and every other index 32: a
\* TPCsetID or ROPID constructed with TPC set index s stores s modulo 2^16,
\* so that TPCsetID(c, s) == TPCsetID(c, s + 65536), while the other
\* indices are stored as given; the neighbour below index 0 has the maximum
\* index and the neighbour above the maximum has index 0 (65535 for TPC
\* sets, 4294967295 for the others), so it is ordered on the other side of
\* the identifier than a neighbour is expected to be.
C29_IndexWidth ==
  /\ last.op = "direct" =>
       LET chain == TypeChain(a.type)
           l     == last.args
       IN  \A k \in 1..Len(chain) :
             IF chain[k] = "TPCsetID"
               THEN /\ a.TPCset = <<0, l[k][2]>>
                    /\ UIntToChars(a.TPCset) = UIntToChars(UInt(l[k][2]))
                    /\ operator_eq(a, DirectConstructed(a.type,
                         [l EXCEPT ![k] = <<(l[k][1] + 1) % 65536, l[k][2]>>]))
               ELSE /\ a[IndexField(chain[k])] = l[k]
                    /\ l[k][1] # 65535 =>
                         operator_ne(a, DirectConstructed(a.type,
                           [l EXCEPT ![k] = <<l[k][1] + 1, l[k][2]>>]))
  /\ last.op = "neighbour" =>
       LET i   == a[IndexField(a.type)]
           max == IF a.type = "TPCsetID" THEN <<0, 65535>>
                                         ELSE <<65535, 65535>>
       IN  CASE last.args[1] = -1 /\ i = <<0, 0>> ->
                  /\ b[IndexField(a.type)] = max
                  /\ operator_lt(a, b)
             [] last.args[1] = 1 /\ i = max ->
                  /\ b[IndexField(a.type)] = <<0, 0>>
                  /\ operator_lt(b, a)
             [] last.args[1] = -1 /\ i # <<0, 0>> -> operator_lt(b, a)
             [] last.args[1] = 1 /\ i # max -> operator_lt(a, b)

\* The TPC set below TPC set 0 is TPC set 65535, which comes after it.
C29_Witness ==
  /\ last.op = "neighbour"
  /\ last.args[1] = -1
  /\ a.type = "TPCsetID"
  /\ a.TPCset = <<0, 0>>
  /\ b.TPCset = <<0, 65535>>
  /\ operator_lt(a, b)

(***************************************************************************)
(* geo::MiddlePointAccumulator with weighted additions.  `a` is the        *)
(* accumulator, `b` the sequence of the <<point, weight>> pairs added      *)
(* since its construction or its last clear().                             *)
(***************************************************************************)

MaxWeight == 1

\* An add(p, weight) that counts every point once.
MiddlePointAccumulator_add_weight_counted_once(acc, p, w) ==
  [acc EXCEPT !.fSums = <<acc.fSums[1] + w * p[1],
                          acc.fSums[2] + w * p[2],
                          acc.fSums[3] + w * p[3]>>,
              !.fW = acc.fW + 1]

\* void add(Point const& p, double weight)
MiddlePointAccumulator_add_weight(acc, p, w) ==
  [acc EXCEPT !.fSums = <<acc.fSums[1] + w * p[1],
                          acc.fSums[2] + w * p[2],
                          acc.fSums[3] + w * p[3]>>,
              !.fW = acc.fW + w]

\* a.add(p, weight);
AccumulatorAddWeighted(p, w) ==
  /\ a # NoID
  /\ Len(b) + 1 <= MaxPoints
  /\ a' = MiddlePointAccumulator_add_weight(a, p, w)
  /\ b' = Append(b, <<p, w>>)
  /\ last' = [op |-> "add_weight", type |-> "MiddlePointAccumulator",
              args |-> <<p, w>>, cleared |-> last.cleared]

NextWeighted ==
  \/ AccumulatorConstruct
  \/ \E p \in Points, w \in (-MaxWeight)..MaxWeight :
       AccumulatorAddWeighted(p, w)
  \/ AccumulatorClear
  \/ AccumulatorDestroy

SpecWeighted == InitAccumulator /\ [][NextWeighted]_vars

\* The sum of the weights, and of weight times coordinate i, over the
\* <<point, weight>> pairs of the sequence l.
RECURSIVE SumOfWeights(_)
SumOfWeights(l) ==
  IF l = <<>> THEN 0 ELSE l[1][2] + SumOfWeights(Tail(l))

RECURSIVE WeightedSumOfCoordinate(_, _)
WeightedSumOfCoordinate(l, i) ==
  IF l = <<>>
    THEN 0
    ELSE l[1][2] * l[1][1][i] + WeightedSumOfCoordinate(Tail(l), i)

\* C30: add(p, w) adds w times each coordinate of p to the sums and w to
\* the total weight, add(p) doing what add(p, 1) does; empty() depends on
\* the total weight only, so that after additions whose weights sum to zero
\* (add(p, 1) then add(q, -1), or add(p, 0)) it is true although points
\* were added, and middlePoint() then divides the sums by the zero weight.
C30_EmptyIsZeroWeight ==
  a # NoID =>
    /\ a.fW = SumOfWeights(b)
    /\ weight(a) = SumOfWeights(b)
    /\ \A i \in 1..3 : a.fSums[i] = WeightedSumOfCoordinate(b, i)
    /\ \A p \in Points :
         MiddlePointAccumulator_add(a, p)
           = MiddlePointAccumulator_add_weight(a, p, 1)
    /\ empty(a) <=> SumOfWeights(b) = 0
    /\ SumOfWeights(b) = 0 =>
         \A i \in 1..3 :
           /\ middlePoint(a)[i][2] = 0
           /\ middlePoint(a)[i][1] =
                (IF a.fSums[i] > 0 THEN 1 ELSE IF a.fSums[i] < 0 THEN -1 ELSE 0)

\* add(p, 1) then add(q, -1): two points added, empty() is true and the
\* sums are not all zero.
C30_Witness ==
  /\ a # NoID
  /\ last.op = "add_weight"
  /\ Len(b) = 2
  /\ b[1][2] = 1
  /\ b[2][2] = -1
  /\ b[1][1] # b[2][1]
  /\ empty(a)
  /\ a.fSums # <<0, 0, 0>>
=============================================================================
